---- MODULE Spec2Model ----
(***************************************************************************)
(* Reverse sync (Postman collection -> OpenAPI spec): the three-way change *)
(* detection and merge engine and the ReverseSync.reverseSync orchestrator *)
(* of src/src/reverse-sync.js.                                             *)
(*                                                                         *)
(* change-detector.js and spec-merge.js are imported by reverse-sync.js    *)
(* but are not part of the sources; ChangeDetector.detectChanges and the   *)
(* SpecMerge methods are modelled from sections 3, 4.1 and 4.3 of the      *)
(* specification.                                                          *)
(***************************************************************************)
EXTENDS Integers, Sequences, FiniteSets, TLC

\* ------------------------------------------------------------------------
\* Bounds
\* ------------------------------------------------------------------------
\* number of distinct defined description texts ("A", "B", "C" are 1, 2, 3)
NumVals == 3
\* number of reverseSync invocations followed in one behaviour
MaxRuns == 2
\* longest list of segments of a path handed to pathsMatch
MaxSegs == 2
\* longest list of top-level items of a collection handed to a method
MaxItems == 2
\* largest maxAttempts of a waitForCollection* call
MaxAttempts == 6
\* largest maxRetries of a getCollectionWithRetry call
MaxRetries == 4
\* number of times a collection or environment is created or edited
MaxTime == 2

\* ------------------------------------------------------------------------
\* State
\* ------------------------------------------------------------------------
VARIABLES
    specFile,       \* the file at specPath
    outFile,        \* the file at options.outputPath when it is another path
    backupFile,     \* the backup written by backupSpec
    baselineFile,   \* the file at getBaselinePath(specPath)
    remoteApi,      \* what getCollectionAsOpenApi answers (Null: it throws)
    collection,     \* what getCollection answers (collection.collection)
    config,         \* this.config
    options,        \* the options of the running reverseSync call
    pc,             \* position of the running reverseSync call
    localSpec, baseSpec, remoteSpec, changes, mergeResult,   \* its locals
    testsApplied,   \* what applyTestsAsExtensions returned to it
    result,         \* what the call returned
    runs,           \* number of calls started
    wroteSpec,      \* the running call has written the merged spec
    wroteBaseline,  \* the running call has saved the baseline
    crashed,        \* the last call killed between writeSpec and saveBaseline
    call,           \* a method called on its own, with its arguments
    ret,            \* what that method returned
    frame,          \* the locals of a method that is waiting at an await
    workspace,      \* the collections and environments of the Postman workspace
    manifest        \* the file postman/.sync-manifest.json

vars == <<specFile, outFile, backupFile, baselineFile, remoteApi, collection, config,
          options, pc, localSpec, baseSpec, remoteSpec, changes, mergeResult,
          testsApplied, result, runs, wroteSpec, wroteBaseline, crashed, call, ret,
          frame, workspace, manifest>>

\* what no step of reverseSync changes
env == <<remoteApi, collection, config, call, ret, frame, workspace, manifest>>
files == <<specFile, outFile, backupFile, baselineFile>>
locals == <<localSpec, baseSpec, remoteSpec, changes, mergeResult, testsApplied>>

\* ------------------------------------------------------------------------
\* Document model
\* ------------------------------------------------------------------------
\* an absent field (JavaScript undefined) of a description
Undef == 0

\* path templates as String.split('/') sees them: "/test" is <<"", "test">>,
\* every segment a sequence of characters
SegEmpty == <<>>
SegTest == <<"t", "e", "s", "t">>
SegTest2 == <<"t", "e", "s", "t", "2">>
SegUsers == <<"u", "s", "e", "r", "s">>
SegId == <<"{", "i", "d", "}">>
SegMe == <<"m", "e">>
Seg1 == <<"1">>
Seg2 == <<"2">>
PathTest == <<SegEmpty, SegTest>>
PathTest2 == <<SegEmpty, SegTest2>>
PathUsersId == <<SegEmpty, SegUsers, SegId>>
PathUsersMe == <<SegEmpty, SegUsers, SegMe>>

\* the keys of spec.paths in their stored order
PathOrder == <<PathTest, PathTest2>>
Paths == {PathOrder[i] : i \in 1..Len(PathOrder)}
MethodOrder == <<"get">>
Methods == {MethodOrder[i] : i \in 1..Len(MethodOrder)}

\* a test extension entry as extractTestsFromCollection builds it
TestEntry(name, script, type) == [name |-> name, script |-> script, type |-> type]

\* an Operation node; a missing operation is "present with undefined" leaves
NoOp == [present |-> FALSE, description |-> Undef, tests |-> <<>>]
Operation(d, t) == [present |-> TRUE, description |-> d, tests |-> t]

\* the description values a document of the model draws from, per path
DescValues(p) == IF p = PathTest THEN 0..NumVals ELSE 0..1

\* SpecDocument: paths{path:{method:Operation}}
OpsAt(p) == {NoOp} \cup {Operation(d, <<>>) : d \in DescValues(p)}
Docs == {doc \in [Paths -> [Methods -> UNION {OpsAt(p) : p \in Paths}]] :
            \A p \in Paths : \A m \in Methods : doc[p][m] \in OpsAt(p)}

\* a path key exists in doc.paths iff it carries an operation
HasPath(doc, p) == p \in DOMAIN doc /\ \E m \in Methods : doc[p][m].present
PathKeys(doc) == {p \in Paths : HasPath(doc, p)}

\* ------------------------------------------------------------------------
\* Leaves: paths.<path>.<method> (operation presence),
\*         paths.<path>.<method>.description,
\*         paths.<path>.<method>.x-postman-tests
\* ------------------------------------------------------------------------
FieldOrder == <<"present", "description", "tests">>
Leaf(p, m, f) == [p |-> p, m |-> m, f |-> f]

LeafOrder ==
    [i \in 1..(Len(PathOrder) * Len(MethodOrder) * Len(FieldOrder)) |->
        LET fi == ((i - 1) % Len(FieldOrder)) + 1
            mi == (((i - 1) \div Len(FieldOrder)) % Len(MethodOrder)) + 1
            pi == ((i - 1) \div (Len(FieldOrder) * Len(MethodOrder))) + 1
        IN  Leaf(PathOrder[pi], MethodOrder[mi], FieldOrder[fi])]
Leaves == {LeafOrder[i] : i \in 1..Len(LeafOrder)}

\* the value of a leaf, an absent operation reading as undefined
getLeaf(doc, leaf) ==
    LET op == doc[leaf.p][leaf.m]
    IN  CASE leaf.f = "present" -> <<IF op.present THEN 1 ELSE 0>>
          [] leaf.f = "description" -> <<op.description>>
          [] OTHER -> op.tests

\* descriptive (description, summary, examples) against structural
\* (operation presence, path existence) fields
IsDescriptive(leaf) == leaf.f = "description"
IsStructural(leaf) == leaf.f = "present"
IsTestField(leaf) == leaf.f = "tests"

\* ------------------------------------------------------------------------
\* Change Detector (specification 4.1): detectChanges(baseline, local, remote)
\* ------------------------------------------------------------------------
EmptyChanges == [safeToSync |-> <<>>, needsReview |-> <<>>, blocked |-> <<>>, tests |-> <<>>]

\* the three equality tests of the classification table
Classify(b, l, r) ==
    IF b = l
    THEN IF b = r THEN "no change" ELSE "candidate"
    ELSE IF b = r THEN "local only"
         ELSE IF l = r THEN "converged" ELSE "conflict"

\* the bucket a leaf lands in
BucketOf(base, local, remote, leaf) ==
    LET b == getLeaf(base, leaf)
        l == getLeaf(local, leaf)
        r == getLeaf(remote, leaf)
        c == Classify(b, l, r)
    IN  IF IsTestField(leaf)
        THEN \* extracted separately, not through the equality table
             IF b # r THEN "tests" ELSE "none"
        ELSE CASE c = "candidate" -> IF IsDescriptive(leaf) THEN "safeToSync" ELSE "blocked"
               [] c = "conflict" -> IF IsDescriptive(leaf) THEN "needsReview" ELSE "blocked"
               [] c = "converged" -> "safeToSync"
               [] OTHER -> "none"

ChangeKind(base, remote, leaf) ==
    IF leaf.f = "present"
    THEN IF remote[leaf.p][leaf.m].present THEN "Added" ELSE "Deleted"
    ELSE "Modified"

ChangeDirection(leaf) ==
    CASE IsTestField(leaf) -> "CollectionOnly"
      [] IsStructural(leaf) -> "StructuralOnly"
      [] OTHER -> "Bidirectional"

ChangeReason(base, local, remote, leaf) ==
    CASE IsTestField(leaf) -> "Test scripts"
      [] IsStructural(leaf) ->
            IF remote[leaf.p][leaf.m].present
            THEN "new endpoint (operation added)" ELSE "operation removed"
      [] OTHER -> "description changed"

ChangeRecord(base, local, remote, leaf) ==
    [path |-> leaf,
     kind |-> ChangeKind(base, remote, leaf),
     oldValue |-> getLeaf(base, leaf),
     newValue |-> getLeaf(remote, leaf),
     direction |-> ChangeDirection(leaf),
     reason |-> ChangeReason(base, local, remote, leaf),
     hasConflict |-> (BucketOf(base, local, remote, leaf) = "needsReview")]

\* the leaves reachable from the union of the paths keys of the three documents
ReachableLeaf(base, local, remote, leaf) ==
    leaf.p \in PathKeys(base) \cup PathKeys(local) \cup PathKeys(remote)

RECURSIVE BucketRecords(_, _, _, _, _)
BucketRecords(base, local, remote, bucket, i) ==
    IF i > Len(LeafOrder) THEN <<>>
    ELSE LET leaf == LeafOrder[i]
             rest == BucketRecords(base, local, remote, bucket, i + 1)
         IN  IF ReachableLeaf(base, local, remote, leaf)
                /\ BucketOf(base, local, remote, leaf) = bucket
             THEN <<ChangeRecord(base, local, remote, leaf)>> \o rest
             ELSE rest

detectChanges(base, local, remote) ==
    [safeToSync |-> BucketRecords(base, local, remote, "safeToSync", 1),
     needsReview |-> BucketRecords(base, local, remote, "needsReview", 1),
     blocked |-> BucketRecords(base, local, remote, "blocked", 1),
     tests |-> BucketRecords(base, local, remote, "tests", 1)]

\* ------------------------------------------------------------------------
\* Spec Merge (specification 4.3): mergeSpecs(local, remote, safeChanges)
\* ------------------------------------------------------------------------
\* a record's path resolves when the operation it lies in exists in the
\* working copy; paths of another root ("request.<name>.description", built
\* by the degraded extraction) never resolve in a specification document
IsDocLeaf(path) == path \in Leaves
PathResolves(work, path) == IsDocLeaf(path) /\ work[path.p][path.m].present

\* set the leaf to newValue
setLeaf(work, leaf, value) ==
    LET op == work[leaf.p][leaf.m]
        newOp == CASE leaf.f = "present" -> IF value = <<1>> THEN op ELSE NoOp
                   [] leaf.f = "description" -> [op EXCEPT !.description = value[1]]
                   [] OTHER -> [op EXCEPT !.tests = value]
    IN  [work EXCEPT ![leaf.p][leaf.m] = newOp]

Skipped(rec) == [rec EXCEPT !.reason = "path no longer present"]

RECURSIVE MergeFrom(_, _, _, _, _)
MergeFrom(work, safeChanges, i, applied, skipped) ==
    IF i > Len(safeChanges)
    THEN [spec |-> work, applied |-> applied, skipped |-> skipped]
    ELSE LET rec == safeChanges[i]
         IN  IF PathResolves(work, rec.path)
             THEN MergeFrom(setLeaf(work, rec.path, rec.newValue), safeChanges,
                            i + 1, Append(applied, rec), skipped)
             ELSE MergeFrom(work, safeChanges, i + 1, applied,
                            Append(skipped, Skipped(rec)))

\* a merge that gives up at the first record whose path does not resolve
RECURSIVE MergeUntilStale(_, _, _, _, _)
MergeUntilStale(work, safeChanges, i, applied, skipped) ==
    IF i > Len(safeChanges)
    THEN [spec |-> work, applied |-> applied, skipped |-> skipped]
    ELSE LET rec == safeChanges[i]
         IN  IF PathResolves(work, rec.path)
             THEN MergeUntilStale(setLeaf(work, rec.path, rec.newValue), safeChanges,
                                  i + 1, Append(applied, rec), skipped)
             ELSE [spec |-> work, applied |-> applied,
                   skipped |-> Append(skipped, Skipped(rec))]
mergeSpecs_stopsAtStale(local, remote, safeChanges) ==
    MergeUntilStale(local, safeChanges, 1, <<>>, <<>>)

mergeSpecs(local, remote, safeChanges) == MergeFrom(local, safeChanges, 1, <<>>, <<>>)

\* ------------------------------------------------------------------------
\* Collection input: a tree of items, each a folder (item) or a request
\* ------------------------------------------------------------------------
NoRequest == [url |-> [kind |-> "undefined", path |-> <<>>], method |-> "undefined"]
Folder(name, items) ==
    [name |-> name, hasItem |-> TRUE, item |-> items, hasRequest |-> FALSE,
     request |-> NoRequest, hasEvent |-> FALSE, event |-> <<>>, description |-> Undef]
Request(name, description, urlPath, method, hasEvent, events) ==
    [name |-> name, hasItem |-> FALSE, item |-> <<>>, hasRequest |-> TRUE,
     request |-> [url |-> [kind |-> "object", path |-> urlPath], method |-> method],
     hasEvent |-> hasEvent, event |-> events, description |-> description]
\* a request item that carries no url
RequestNoUrl(name, description, method, hasEvent, events) ==
    [name |-> name, hasItem |-> FALSE, item |-> <<>>, hasRequest |-> TRUE,
     request |-> [url |-> [kind |-> "undefined", path |-> <<>>], method |-> method],
     hasEvent |-> hasEvent, event |-> events, description |-> description]
Event(listen, exec) == [listen |-> listen, script |-> [exec |-> exec, type |-> "text/javascript"]]

CollectionA ==
    [item |-> <<Request("Get test", 1, <<SegTest>>, "GET", TRUE,
                        <<Event("test", <<"l1", "l2">>)>>)>>]
CollectionB ==
    [item |-> <<Folder("F", <<Request("Get test2", Undef, <<SegTest2>>, "undefined", TRUE,
                                      <<Event("prerequest", <<"p1">>),
                                        Event("test", <<"l3">>)>>)>>),
                Request("Plain", 2, <<SegTest>>, "GET", FALSE, <<>>)>>]
Collections == {CollectionA, CollectionB}

\* item.event.filter(e => e.listen === 'test')
TestEvents(events) == SelectSeq(events, LAMBDA e : e.listen = "test")

\* ------------------------------------------------------------------------
\* Degraded extraction (reverse-sync.js 213-268)
\* ------------------------------------------------------------------------
RequestLeaf(name, f) == [root |-> "request", name |-> name, f |-> f]

DescriptionRecord(item) ==
    [path |-> RequestLeaf(item.name, "description"), kind |-> "E",
     newValue |-> item.description, direction |-> "Bidirectional",
     reason |-> "Request description", hasConflict |-> FALSE]
TestsRecord(item) ==
    [path |-> RequestLeaf(item.name, "tests"), kind |-> "E",
     newValue |-> TestEvents(item.event), direction |-> "CollectionOnly",
     reason |-> "Test scripts", hasConflict |-> FALSE]

RECURSIVE extractDescriptionsFromItems(_, _, _)
extractDescriptionsFromItems(items, chg, i) ==
    IF i > Len(items) THEN chg
    ELSE LET item == items[i]
             after ==
               IF item.hasItem
               THEN extractDescriptionsFromItems(item.item, chg, 1)
               ELSE IF item.hasRequest
               THEN LET c1 == IF item.description # Undef
                              THEN [chg EXCEPT !.safeToSync =
                                       Append(@, DescriptionRecord(item))]
                              ELSE chg
                    IN  IF item.hasEvent /\ Len(TestEvents(item.event)) > 0
                        THEN [c1 EXCEPT !.tests = Append(@, TestsRecord(item))]
                        ELSE c1
               ELSE chg
         IN  extractDescriptionsFromItems(items, after, i + 1)

\* an extraction that looks at the top-level items only
RECURSIVE ExtractTopLevel(_, _, _)
ExtractTopLevel(items, chg, i) ==
    IF i > Len(items) THEN chg
    ELSE ExtractTopLevel(items,
                         IF items[i].hasItem THEN chg
                         ELSE extractDescriptionsFromItems(<<items[i]>>, chg, 1),
                         i + 1)
extractChangesFromCollection_topLevel(baseSpec_, localSpec_, coll) ==
    ExtractTopLevel(coll.item, EmptyChanges, 1)

extractChangesFromCollection(baseSpec_, localSpec_, coll) ==
    extractDescriptionsFromItems(coll.item, EmptyChanges, 1)

\* ------------------------------------------------------------------------
\* Test Extension Store (reverse-sync.js 270-374)
\* ------------------------------------------------------------------------
\* pathsMatch: /users/{id} matches /users/123
IsPathParameter(part) == Len(part) >= 1 /\ part[1] = "{" /\ part[Len(part)] = "}"
\* a match that compares the segments both paths have and not their number
pathsMatch_commonSegments(specPath, urlPath) ==
    \A i \in 1..Len(specPath) :
        i <= Len(urlPath) => (IsPathParameter(specPath[i]) \/ specPath[i] = urlPath[i])
pathsMatch(specPath, urlPath) ==
    /\ Len(specPath) = Len(urlPath)
    /\ \A i \in 1..Len(specPath) : IsPathParameter(specPath[i]) \/ specPath[i] = urlPath[i]

\* the keys a spec.paths of the model may hold, in their stored order: the
\* documents reverseSync reads hold the first two, those handed to
\* findOperation on its own the two overlapping templates as well
KeyOrder == <<PathTest, PathTest2, PathUsersId, PathUsersMe>>

NoOperation == [found |-> FALSE, p |-> PathTest, m |-> "get"]
RECURSIVE FindFrom(_, _, _, _)
FindFrom(spec, urlPath, method, i) ==
    IF i > Len(KeyOrder) THEN NoOperation
    ELSE LET sp == KeyOrder[i]
         IN  IF HasPath(spec, sp) /\ pathsMatch(sp, urlPath)
                /\ method \in Methods /\ spec[sp][method].present
             THEN [found |-> TRUE, p |-> sp, m |-> method]
             ELSE FindFrom(spec, urlPath, method, i + 1)

\* a lookup that takes the get operation of the path whatever the method
findOperation_anyMethod(spec, urlPath, method) ==
    IF urlPath \in DOMAIN spec /\ spec[urlPath]["get"].present
    THEN [found |-> TRUE, p |-> urlPath, m |-> "get"]
    ELSE FindFrom(spec, urlPath, "get", 1)

findOperation(spec, urlPath, method) ==
    IF urlPath \in DOMAIN spec /\ method \in Methods /\ spec[urlPath][method].present
    THEN [found |-> TRUE, p |-> urlPath, m |-> method]
    ELSE FindFrom(spec, urlPath, method, 1)

\* (item.request.method || 'get').toLowerCase()
toLowerCase(method) ==
    CASE method = "GET" -> "get"
      [] method = "POST" -> "post"
      [] method = "undefined" -> "get"
      [] OTHER -> method

\* `/${(url.path || []).join('/')}` as split('/') sees it again
UrlPathOf(url) == IF url.path = <<>> THEN <<SegEmpty, SegEmpty>> ELSE <<SegEmpty>> \o url.path

\* tests[key] = ... on an object: a new key is appended, an old one keeps its place
PutKey(tests, key, value) ==
    IF \E j \in 1..Len(tests) : tests[j].key = key
    THEN [j \in 1..Len(tests) |->
            IF tests[j].key = key THEN [key |-> key, tests |-> value] ELSE tests[j]]
    ELSE Append(tests, [key |-> key, tests |-> value])

\* an entry for every event of the item, whatever it listens to
EntriesOf_allEvents(item) ==
    [j \in 1..Len(item.event) |->
        TestEntry(item.name, item.event[j].script.exec, item.event[j].script.type)]

EntriesOf(item) ==
    LET ev == TestEvents(item.event)
    IN  [j \in 1..Len(ev) |-> TestEntry(item.name, ev[j].script.exec, ev[j].script.type)]

\* the tests object built so far; threw: a TypeError left the loop
NoTests == [threw |-> FALSE, tests |-> <<>>]

\* url.path on a request whose url is undefined throws a TypeError, which
\* nothing between processItems and the caller of reverseSync catches
RECURSIVE processItems(_, _, _)
processItems(items, acc, i) ==
    IF acc.threw \/ i > Len(items) THEN acc
    ELSE LET item == items[i]
             after ==
               IF item.hasItem
               THEN processItems(item.item, acc, 1)
               ELSE IF item.hasRequest /\ item.hasEvent /\ Len(TestEvents(item.event)) > 0
               THEN IF item.request.url.kind = "undefined"
                    THEN [acc EXCEPT !.threw = TRUE]
                    ELSE [acc EXCEPT !.tests =
                            PutKey(@, <<UrlPathOf(item.request.url),
                                        toLowerCase(item.request.method)>>,
                                   EntriesOf(item))]
               ELSE acc
         IN  processItems(items, after, i + 1)

extractTestsFromCollection(coll) == processItems(coll.item, NoTests, 1)

RECURSIVE ApplyFrom(_, _, _, _)
ApplyFrom(spec, testsByOperation, i, appliedCount) ==
    IF i > Len(testsByOperation)
    THEN [spec |-> spec, count |-> appliedCount, threw |-> FALSE]
    ELSE LET e == testsByOperation[i]
             operation == findOperation(spec, e.key[1], e.key[2])
         IN  IF operation.found
             THEN ApplyFrom([spec EXCEPT ![operation.p][operation.m].tests = e.tests],
                            testsByOperation, i + 1, appliedCount + 1)
             ELSE ApplyFrom(spec, testsByOperation, i + 1, appliedCount)

\* test entries pushed onto the operation's list instead of replacing it
RECURSIVE ApplyAppending(_, _, _, _)
ApplyAppending(spec, testsByOperation, i, appliedCount) ==
    IF i > Len(testsByOperation)
    THEN [spec |-> spec, count |-> appliedCount, threw |-> FALSE]
    ELSE LET e == testsByOperation[i]
             operation == findOperation(spec, e.key[1], e.key[2])
         IN  IF operation.found
             THEN ApplyAppending([spec EXCEPT ![operation.p][operation.m].tests = @ \o e.tests],
                                 testsByOperation, i + 1, appliedCount + 1)
             ELSE ApplyAppending(spec, testsByOperation, i + 1, appliedCount)
applyTestsAsExtensions_appends(spec, coll) ==
    LET testsByOperation == extractTestsFromCollection(coll)
    IN  IF testsByOperation.threw
        THEN [spec |-> spec, count |-> 0, threw |-> TRUE]
        ELSE ApplyAppending(spec, testsByOperation.tests, 1, 0)

applyTestsAsExtensions(spec, coll) ==
    LET testsByOperation == extractTestsFromCollection(coll)
    IN  IF testsByOperation.threw
        THEN [spec |-> spec, count |-> 0, threw |-> TRUE]
        ELSE ApplyFrom(spec, testsByOperation.tests, 1, 0)

\* ------------------------------------------------------------------------
\* Files and the collaborators of reverseSync
\* ------------------------------------------------------------------------
EmptyDoc == [p \in Paths |-> [m \in Methods |-> NoOp]]
File(doc) == [exists |-> TRUE, ok |-> TRUE, doc |-> doc]
Absent == [exists |-> FALSE, ok |-> FALSE, doc |-> EmptyDoc]
Corrupt == [exists |-> TRUE, ok |-> FALSE, doc |-> EmptyDoc]

\* a JavaScript null where a document is expected
Null == [ok |-> FALSE, doc |-> EmptyDoc]
Some(doc) == [ok |-> TRUE, doc |-> doc]

\* SpecMerge.readSpec / writeSpec / backupSpec
readSpec(file) == file.doc
writeSpec(spec) == File(spec)
backupSpec(file) == file

\* a load that hands out whatever an existing file holds, parsed or not
loadBaseline_withoutCatch(file) == IF file.exists THEN Some(file.doc) ELSE Null

\* loadBaseline: the parsed baseline, or null when the file is missing or
\* cannot be read or parsed
loadBaseline(file) == IF file.exists /\ file.ok THEN Some(file.doc) ELSE Null

\* a save that snapshots the document read at the start instead of the merged one
saveBaseline_ofLocal(spec) == File(localSpec)

\* saveBaseline: JSON.stringify(spec, null, 2) into the baseline path
saveBaseline(spec) == File(spec)

\* a call that never looks at the stored baseline
BaselineOrLocal_ignoresBaseline(file, local) == local

\* step 4: (await this.loadBaseline(specPath)) || localSpec
BaselineOrLocal(file, local) ==
    IF loadBaseline(file).ok THEN loadBaseline(file).doc ELSE local

NoResult ==
    [status |-> "none", applied |-> <<>>, skipped |-> <<>>,
     wouldApply |-> 0, wouldSkip |-> 0, wouldReview |-> 0]
NoMerge == [spec |-> EmptyDoc, applied |-> <<>>, skipped |-> <<>>]
NoOptions == [dryRun |-> FALSE, inPlace |-> TRUE, noBackup |-> FALSE]
NoCrash == [valid |-> FALSE, doc |-> EmptyDoc, applied |-> <<>>]
NoCall == [fn |-> "none"]
NoRet == [done |-> FALSE]
NoFrame == [phase |-> "none"]
\* a workspace without collections and environments (updatedAt 0: none)
EmptyWorkspace == [collections |-> [u \in 1..2 |-> 0], environments |-> [u \in 3..4 |-> 0]]
\* loadManifest when there is no manifest file: no entries
EmptyManifest == [collections |-> <<>>, environments |-> <<>>]

Strategies == {"spec-wins", "collection-wins"}
Configs == [conflictStrategy : Strategies, storeTestsAsExtension : BOOLEAN]
Options == [dryRun : BOOLEAN, inPlace : BOOLEAN, noBackup : BOOLEAN]

InitLocals ==
    /\ pc = "idle"
    /\ options = NoOptions
    /\ localSpec = EmptyDoc
    /\ baseSpec = EmptyDoc
    /\ remoteSpec = Null
    /\ changes = EmptyChanges
    /\ mergeResult = NoMerge
    /\ testsApplied = 0
    /\ result = NoResult
    /\ runs = 0
    /\ wroteSpec = FALSE
    /\ wroteBaseline = FALSE
    /\ crashed = NoCrash
    /\ call = NoCall
    /\ ret = NoRet
    /\ frame = NoFrame
    /\ workspace = EmptyWorkspace
    /\ manifest = EmptyManifest

Init ==
    /\ specFile \in {File(d) : d \in Docs}
    /\ outFile = Absent
    /\ backupFile = Absent
    /\ baselineFile \in {Absent, Corrupt} \cup {File(d) : d \in Docs}
    /\ remoteApi \in {Null} \cup {Some(d) : d \in Docs}
    /\ collection = CollectionA
    /\ config \in {c \in Configs : c.storeTestsAsExtension}
    /\ InitLocals

\* ------------------------------------------------------------------------
\* reverseSync(specPath, collectionUid, options)
\* ------------------------------------------------------------------------
\* steps 1-4: read the local spec, fetch the collection, transform it,
\* load the baseline
Start ==
    /\ pc = "idle"
    /\ runs < MaxRuns
    /\ \E o \in Options : options' = o
    /\ localSpec' = readSpec(specFile)
    /\ remoteSpec' = remoteApi
    /\ baseSpec' = BaselineOrLocal(baselineFile, readSpec(specFile))
    /\ changes' = EmptyChanges
    /\ mergeResult' = NoMerge
    /\ testsApplied' = 0
    /\ result' = NoResult
    /\ runs' = runs + 1
    /\ wroteSpec' = FALSE
    /\ wroteBaseline' = FALSE
    /\ pc' = "detect"
    /\ UNCHANGED <<files, env, crashed>>

\* detectChanges called with baseline and local exchanged
DetectStep_swapBaseLocal(base, local, remote, coll) ==
    IF remote.ok
    THEN detectChanges(local, base, remote.doc)
    ELSE extractChangesFromCollection(base, local, coll)

\* detectChanges called with local and remote exchanged
DetectStep_swapLocalRemote(base, local, remote, coll) ==
    IF remote.ok
    THEN detectChanges(base, remote.doc, local)
    ELSE extractChangesFromCollection(base, local, coll)

\* step 5: the three-way diff, or the degraded extraction
DetectStep(base, local, remote, coll) ==
    IF remote.ok
    THEN detectChanges(base, local, remote.doc)
    ELSE extractChangesFromCollection(base, local, coll)

\* a call that gives up when the transformation has failed
Detect_withoutFallback ==
    /\ pc = "detect"
    /\ IF remoteSpec.ok
       THEN /\ changes' = DetectStep(baseSpec, localSpec, remoteSpec, collection)
            /\ pc' = "decide"
            /\ result' = result
       ELSE /\ changes' = changes
            /\ pc' = "failed"
            /\ result' = [NoResult EXCEPT !.status = "rejected"]
    /\ UNCHANGED <<files, env, options, localSpec, baseSpec, remoteSpec, mergeResult,
                   testsApplied, runs, wroteSpec, wroteBaseline, crashed>>

Detect ==
    /\ pc = "detect"
    /\ changes' = DetectStep(baseSpec, localSpec, remoteSpec, collection)
    /\ pc' = "decide"
    /\ UNCHANGED <<files, env, options, localSpec, baseSpec, remoteSpec, mergeResult,
                   testsApplied, result, runs, wroteSpec, wroteBaseline, crashed>>

\* a dry run that leaves a backup of the spec behind
DryRun_withBackup ==
    /\ pc = "decide"
    /\ options.dryRun
    /\ result' = [NoResult EXCEPT !.status = "dry-run",
                                  !.wouldApply = Len(changes.safeToSync),
                                  !.wouldSkip = Len(changes.blocked),
                                  !.wouldReview = Len(changes.needsReview)]
    /\ backupFile' = backupSpec(specFile)
    /\ pc' = "done"
    /\ UNCHANGED <<specFile, outFile, baselineFile, env, options, locals, runs,
                   wroteSpec, wroteBaseline, crashed>>

\* step 6: the analysis of a dry run
DryRun ==
    /\ pc = "decide"
    /\ options.dryRun
    /\ result' = [NoResult EXCEPT !.status = "dry-run",
                                  !.wouldApply = Len(changes.safeToSync),
                                  !.wouldSkip = Len(changes.blocked),
                                  !.wouldReview = Len(changes.needsReview)]
    /\ pc' = "done"
    /\ UNCHANGED <<files, env, options, locals, runs, wroteSpec, wroteBaseline, crashed>>

\* a run without changes that refreshes the baseline from the local spec
NoChanges_savesBaseline ==
    /\ pc = "decide"
    /\ ~options.dryRun
    /\ Len(changes.safeToSync) = 0 /\ Len(changes.tests) = 0
    /\ result' = [NoResult EXCEPT !.status = "no-changes"]
    /\ baselineFile' = saveBaseline(localSpec)
    /\ pc' = "done"
    /\ UNCHANGED <<specFile, outFile, backupFile, env, options, locals, runs, wroteSpec,
                   wroteBaseline, crashed>>

\* a run that also stops when structural changes are blocked
NoChanges_whenBlocked ==
    /\ pc = "decide"
    /\ ~options.dryRun
    /\ \/ Len(changes.safeToSync) = 0 /\ Len(changes.tests) = 0
       \/ Len(changes.blocked) > 0
    /\ result' = [NoResult EXCEPT !.status = "no-changes"]
    /\ pc' = "done"
    /\ UNCHANGED <<files, env, options, locals, runs, wroteSpec, wroteBaseline, crashed>>

\* step 8: nothing to apply
NoChanges ==
    /\ pc = "decide"
    /\ ~options.dryRun
    /\ Len(changes.safeToSync) = 0 /\ Len(changes.tests) = 0
    /\ result' = [NoResult EXCEPT !.status = "no-changes"]
    /\ pc' = "done"
    /\ UNCHANGED <<files, env, options, locals, runs, wroteSpec, wroteBaseline, crashed>>

\* mergeSpecs called with local and remote exchanged
MergeStep_swapLocalRemote(local, remote, chg, cfg) ==
    mergeSpecs(IF remote.ok THEN remote.doc ELSE local, local, chg.safeToSync)

\* the conflicts handed to mergeSpecs too when the collection wins
MergeStep_withReview(local, remote, chg, cfg) ==
    mergeSpecs(local, IF remote.ok THEN remote.doc ELSE local,
               IF cfg.conflictStrategy = "collection-wins"
               THEN chg.safeToSync \o chg.needsReview ELSE chg.safeToSync)

\* the conflicts handed to mergeSpecs along with the safe changes
MergeStep_allDescriptive(local, remote, chg, cfg) ==
    mergeSpecs(local, IF remote.ok THEN remote.doc ELSE local,
               chg.safeToSync \o chg.needsReview)

\* step 8: the changes handed to mergeSpecs
MergeStep(local, remote, chg, cfg) ==
    mergeSpecs(local, IF remote.ok THEN remote.doc ELSE local, chg.safeToSync)

Merge ==
    /\ pc = "decide"
    /\ ~options.dryRun
    /\ ~(Len(changes.safeToSync) = 0 /\ Len(changes.tests) = 0)
    /\ mergeResult' = MergeStep(localSpec, remoteSpec, changes, config)
    /\ pc' = "merged"
    /\ UNCHANGED <<files, env, options, localSpec, baseSpec, remoteSpec, changes,
                   testsApplied, result, runs, wroteSpec, wroteBaseline, crashed>>

\* step 9: tests as vendor extension, written into mergeResult.spec; an
\* exception of applyTestsAsExtensions rejects the promise of reverseSync
ApplyTests ==
    /\ pc = "merged"
    /\ LET r == applyTestsAsExtensions(mergeResult.spec, collection)
       IN  IF ~config.storeTestsAsExtension
           THEN /\ pc' = "tested"
                /\ UNCHANGED <<mergeResult, testsApplied, result>>
           ELSE IF r.threw
           THEN /\ pc' = "failed"
                /\ result' = [NoResult EXCEPT !.status = "rejected"]
                /\ UNCHANGED <<mergeResult, testsApplied>>
           ELSE /\ pc' = "tested"
                /\ mergeResult' = [mergeResult EXCEPT !.spec = r.spec]
                /\ testsApplied' = r.count
                /\ result' = result
    /\ UNCHANGED <<files, env, options, localSpec, baseSpec, remoteSpec, changes,
                   runs, wroteSpec, wroteBaseline, crashed>>

\* an in-place write that is not preceded by a backup
Backup_skipped ==
    /\ pc = "tested"
    /\ pc' = "backedUp"
    /\ UNCHANGED <<files, env, options, locals, result, runs,
                   wroteSpec, wroteBaseline, crashed>>

\* step 10: backup of the original when modifying in place
Backup ==
    /\ pc = "tested"
    /\ backupFile' = IF options.inPlace /\ ~options.noBackup
                     THEN backupSpec(specFile) ELSE backupFile
    /\ pc' = "backedUp"
    /\ UNCHANGED <<specFile, outFile, baselineFile, env, options, locals, result, runs,
                   wroteSpec, wroteBaseline, crashed>>

\* step 10: write the updated spec to outputPath
WriteSpec ==
    /\ pc = "backedUp"
    /\ IF options.inPlace
       THEN specFile' = writeSpec(mergeResult.spec) /\ outFile' = outFile
       ELSE outFile' = writeSpec(mergeResult.spec) /\ specFile' = specFile
    /\ wroteSpec' = TRUE
    /\ pc' = "written"
    /\ UNCHANGED <<backupFile, baselineFile, env, options, locals, result, runs,
                   wroteBaseline, crashed>>

\* the baseline saved before the merged spec is written
SaveBaseline_beforeWrite ==
    /\ pc \in {"backedUp", "written"}
    /\ baselineFile' = saveBaseline(mergeResult.spec)
    /\ wroteBaseline' = TRUE
    /\ result' = [NoResult EXCEPT !.status = "synced",
                                  !.applied = mergeResult.applied,
                                  !.skipped = mergeResult.skipped]
    /\ crashed' = NoCrash
    /\ pc' = "done"
    /\ UNCHANGED <<specFile, outFile, backupFile, env, options, locals, runs, wroteSpec>>

\* step 11: save the new baseline and return
SaveBaseline ==
    /\ pc = "written"
    /\ baselineFile' = saveBaseline(mergeResult.spec)
    /\ wroteBaseline' = TRUE
    /\ result' = [NoResult EXCEPT !.status = "synced",
                                  !.applied = mergeResult.applied,
                                  !.skipped = mergeResult.skipped]
    /\ crashed' = NoCrash
    /\ pc' = "done"
    /\ UNCHANGED <<specFile, outFile, backupFile, env, options, locals, runs, wroteSpec>>

Next ==
    \/ Start
    \/ Detect
    \/ DryRun
    \/ NoChanges
    \/ Merge
    \/ ApplyTests
    \/ Backup
    \/ WriteSpec
    \/ SaveBaseline

Spec == Init /\ [][Next]_vars

\* ------------------------------------------------------------------------
\* Repeated calls, and a process killed in the middle of a call
\* ------------------------------------------------------------------------
ResetLocals ==
    /\ pc' = "idle"
    /\ options' = NoOptions
    /\ localSpec' = EmptyDoc
    /\ baseSpec' = EmptyDoc
    /\ remoteSpec' = Null
    /\ changes' = EmptyChanges
    /\ mergeResult' = NoMerge
    /\ testsApplied' = 0
    /\ result' = NoResult
    /\ wroteSpec' = FALSE
    /\ wroteBaseline' = FALSE

\* the call has returned; the next one may start
Return ==
    /\ pc \in {"done", "failed"}
    /\ runs < MaxRuns
    /\ ResetLocals
    /\ UNCHANGED <<files, env, runs, crashed>>

\* the process dies; nothing but the files survives
Crash ==
    /\ pc \in {"detect", "decide", "merged", "tested", "backedUp", "written"}
    /\ runs < MaxRuns
    /\ crashed' = IF pc = "written" /\ options.inPlace
                  THEN [valid |-> TRUE, doc |-> specFile.doc, applied |-> mergeResult.applied]
                  ELSE crashed
    /\ ResetLocals
    /\ UNCHANGED <<files, env, runs>>

\* documents of the repeated-call specification
RunOps(p) == IF p = PathTest
             THEN {Operation(d, <<>>) : d \in 0..2}
             ELSE {NoOp, Operation(1, <<>>)}
RunDocs == {doc \in Docs : \A p \in Paths : \A m \in Methods : doc[p][m] \in RunOps(p)}

InitRuns ==
    /\ specFile \in {File(d) : d \in RunDocs}
    /\ outFile = Absent
    /\ backupFile = Absent
    /\ baselineFile \in {Absent} \cup {File(d) : d \in RunDocs}
    /\ remoteApi \in {Null} \cup {Some(d) : d \in RunDocs}
    /\ collection \in Collections
    /\ config \in Configs
    /\ InitLocals

NextRuns ==
    \/ Start
    \/ Detect
    \/ DryRun
    \/ NoChanges
    \/ Merge
    \/ ApplyTests
    \/ Backup
    \/ WriteSpec
    \/ SaveBaseline
    \/ Return
    \/ Crash

SpecRuns == InitRuns /\ [][NextRuns]_vars

\* one call that is not killed: every await of reverseSync settles and the
\* steps between them are synchronous, so the call keeps taking its next step
SpecLive == InitRuns /\ [][Next]_vars /\ WF_vars(Next)

\* ------------------------------------------------------------------------
\* Strings: a string is the sequence of its characters
\* ------------------------------------------------------------------------
LastIndexOf(s, c) ==
    IF \E i \in 1..Len(s) : s[i] = c
    THEN CHOOSE i \in 1..Len(s) : s[i] = c /\ \A j \in (i + 1)..Len(s) : s[j] # c
    ELSE 0
EndsWith(s, suffix) ==
    /\ Len(suffix) <= Len(s)
    /\ SubSeq(s, Len(s) - Len(suffix) + 1, Len(s)) = suffix

\* String.prototype.split(sep) for a one-character separator
RECURSIVE SplitFrom(_, _, _, _, _)
SplitFrom(s, sep, i, cur, parts) ==
    IF i > Len(s) THEN Append(parts, cur)
    ELSE IF s[i] = sep
         THEN SplitFrom(s, sep, i + 1, <<>>, Append(parts, cur))
         ELSE SplitFrom(s, sep, i + 1, Append(cur, s[i]), parts)
split(s, sep) == SplitFrom(s, sep, 1, <<>>, <<>>)

\* Array.prototype.join(sep)
RECURSIVE JoinFrom(_, _, _)
JoinFrom(parts, sep, i) ==
    IF i > Len(parts) THEN <<>>
    ELSE IF i = Len(parts) THEN parts[i]
    ELSE parts[i] \o <<sep>> \o JoinFrom(parts, sep, i + 1)
join(parts, sep) == JoinFrom(parts, sep, 1)

\* ------------------------------------------------------------------------
\* getBaselinePath (reverse-sync.js 201-208) and the path functions it calls
\* ------------------------------------------------------------------------
\* path.dirname, path.extname, path.basename(p, ext), path.join of a
\* normalised relative POSIX path that does not end with a slash
dirname(p) ==
    LET k == LastIndexOf(p, "/")
    IN  IF k = 0 THEN <<".">> ELSE IF k = 1 THEN <<"/">> ELSE SubSeq(p, 1, k - 1)
lastSegment(p) == SubSeq(p, LastIndexOf(p, "/") + 1, Len(p))
extname(p) ==
    LET b == lastSegment(p)
        d == LastIndexOf(b, ".")
    IN  IF d <= 1 THEN <<>> ELSE SubSeq(b, d, Len(b))
basename(p, ext) ==
    LET b == lastSegment(p)
    IN  IF ext # <<>> /\ b # ext /\ EndsWith(b, ext)
        THEN SubSeq(b, 1, Len(b) - Len(ext)) ELSE b
pathJoin(parts) ==
    join(SelectSeq(parts, LAMBDA part : part # <<".">> /\ part # <<>>), "/")

\* config.baselineDir || '.sync-baselines'
baselineDir == <<".", "s", "y", "n", "c", "-", "b", "a", "s", "e", "l", "i", "n", "e", "s">>
BaselineSuffix == <<".", "b", "a", "s", "e", "l", "i", "n", "e", ".", "j", "s", "o", "n">>

getBaselinePath(specPath) ==
    LET specName == basename(specPath, extname(specPath))
    IN  pathJoin(<<dirname(specPath), baselineDir, specName \o BaselineSuffix>>)

\* the specification files of a workspace
DirA == <<"a">>
DirB == <<"b">>
NameApiYaml == <<"a", "p", "i", ".", "y", "a", "m", "l">>
NameApiJson == <<"a", "p", "i", ".", "j", "s", "o", "n">>
NameApi == <<"a", "p", "i">>
NamePetYaml == <<"p", "e", "t", ".", "y", "a", "m", "l">>
NameApiV1Yaml == <<"a", "p", "i", ".", "v", "1", ".", "y", "a", "m", "l">>
SpecPaths ==
    {join(<<d, n>>, "/") : d \in {DirA, DirB},
                          n \in {NameApiYaml, NameApiJson, NameApi, NamePetYaml, NameApiV1Yaml}}

\* ------------------------------------------------------------------------
\* Methods of ReverseSync called on their own
\* ------------------------------------------------------------------------
Returned(value) == [done |-> TRUE, value |-> value]

\* every variable of reverseSync at rest
InitCalls ==
    /\ specFile = File(EmptyDoc)
    /\ outFile = Absent
    /\ backupFile = Absent
    /\ baselineFile = Absent
    /\ remoteApi = Null
    /\ collection = CollectionA
    /\ config \in {c \in Configs : c.storeTestsAsExtension /\ c.conflictStrategy = "spec-wins"}
    /\ pc = "idle"
    /\ options = NoOptions
    /\ localSpec = EmptyDoc
    /\ baseSpec = EmptyDoc
    /\ remoteSpec = Null
    /\ changes = EmptyChanges
    /\ mergeResult = NoMerge
    /\ testsApplied = 0
    /\ result = NoResult
    /\ runs = 0
    /\ wroteSpec = FALSE
    /\ wroteBaseline = FALSE
    /\ crashed = NoCrash
    /\ ret = NoRet
    /\ frame = NoFrame
    /\ manifest = EmptyManifest

unchangedByCalls ==
    <<files, remoteApi, collection, config, options, pc, locals, result, runs,
      wroteSpec, wroteBaseline, crashed, call, frame, workspace, manifest>>

\* getBaselinePath of two specification files of the workspace
GetBaselinePathCalls ==
    {[fn |-> "getBaselinePath", specPath |-> p1, otherPath |-> p2] :
        p1 \in SpecPaths, p2 \in SpecPaths}
GetBaselinePath ==
    /\ call.fn = "getBaselinePath" /\ ~ret.done
    /\ ret' = Returned(<<getBaselinePath(call.specPath), getBaselinePath(call.otherPath)>>)
    /\ UNCHANGED unchangedByCalls

\* pathsMatch(specPath, urlPath) on two strings; the operator pathsMatch
\* works on specParts and urlParts, the two arrays split('/') makes of them
MatchSegs == {SegEmpty, SegMe, SegId, Seg1, <<"{">>, <<"{", "}">>}
PathStrings ==
    {join(segs, "/") : segs \in UNION {[1..n -> MatchSegs] : n \in 1..MaxSegs}}
PathsMatchCalls ==
    {[fn |-> "pathsMatch", specPath |-> t, urlPath |-> u] :
        t \in PathStrings, u \in PathStrings}
PathsMatch ==
    /\ call.fn = "pathsMatch" /\ ~ret.done
    /\ ret' = Returned(pathsMatch(split(call.specPath, "/"), split(call.urlPath, "/")))
    /\ UNCHANGED unchangedByCalls

\* the specifications handed to findOperation and applyTestsAsExtensions
OldTests == <<TestEntry("Old", <<"o1">>, "text/javascript")>>
StorePaths == {KeyOrder[i] : i \in 1..Len(KeyOrder)}
StoreOps(p) ==
    CASE p = PathTest -> {NoOp, Operation(0, <<>>), Operation(1, OldTests)}
      [] p = PathTest2 -> {NoOp}
      [] OTHER -> {NoOp, Operation(0, <<>>)}
StoreDocs ==
    {doc \in [StorePaths -> [Methods -> UNION {StoreOps(p) : p \in StorePaths}]] :
        \A p \in StorePaths : \A m \in Methods : doc[p][m] \in StoreOps(p)}

\* findOperation(spec, urlPath, method), urlPath and method as
\* operationKey.split('|') returns them
PathUsers1 == <<SegEmpty, SegUsers, Seg1>>
PathUsers2 == <<SegEmpty, SegUsers, Seg2>>
PathOther == <<SegEmpty, SegMe>>
UrlPaths == {PathTest, PathUsers1, PathUsers2, PathUsersMe, PathUsersId, PathOther}
FindOperationCalls ==
    {[fn |-> "findOperation", spec |-> d, urlPath |-> u, method |-> m] :
        d \in StoreDocs, u \in UrlPaths, m \in {"get", "post"}}
FindOperation ==
    /\ call.fn = "findOperation" /\ ~ret.done
    /\ ret' = Returned(findOperation(call.spec, call.urlPath, call.method))
    /\ UNCHANGED unchangedByCalls

\* the collections handed to extractChangesFromCollection and
\* applyTestsAsExtensions
ItemTest == Request("Get test", 1, <<SegTest>>, "GET", TRUE,
                    <<Event("test", <<"l1", "l2">>)>>)
ItemUser1 == Request("User 1", Undef, <<SegUsers, Seg1>>, "GET", TRUE,
                     <<Event("test", <<"a1">>)>>)
ItemUser2 == Request("User 2", 2, <<SegUsers, Seg2>>, "GET", TRUE,
                     <<Event("prerequest", <<"p1">>), Event("test", <<"b1">>),
                       Event("test", <<"c1", "c2">>)>>)
ItemUser1Again == Request("User 1 again", Undef, <<SegUsers, Seg1>>, "GET", TRUE,
                          <<Event("test", <<"d1">>)>>)
ItemMe == Request("Me", 3, <<SegUsers, SegMe>>, "undefined", TRUE,
                  <<Event("test", <<"m1">>)>>)
ItemPre == Request("Pre", Undef, <<SegTest>>, "POST", TRUE,
                   <<Event("prerequest", <<"p2">>)>>)
ItemPost == Request("Post test", Undef, <<SegTest>>, "POST", TRUE,
                    <<Event("test", <<"q1">>)>>)
ItemPlain == Request("Plain", 2, <<SegTest>>, "GET", FALSE, <<>>)
ItemNoUrl == RequestNoUrl("No url", 1, "GET", TRUE, <<Event("test", <<"x1">>)>>)
FolderUsers == Folder("Users", <<ItemUser1, Folder("Deep", <<ItemUser2>>)>>)
FolderNoUrl == Folder("Mixed", <<ItemNoUrl, ItemTest>>)
StoreItems == {ItemTest, ItemUser1, ItemUser2, ItemUser1Again, ItemMe, ItemPre, ItemPost, ItemPlain, ItemNoUrl,
               FolderUsers, FolderNoUrl}
StoreCollections ==
    {[item |-> items] : items \in UNION {[1..n -> StoreItems] : n \in 0..MaxItems}}

ExtractChangesCalls ==
    {[fn |-> "extractChangesFromCollection", collection |-> c] : c \in StoreCollections}
ExtractChangesFromCollection ==
    /\ call.fn = "extractChangesFromCollection" /\ ~ret.done
    /\ ret' = Returned(extractChangesFromCollection(EmptyDoc, EmptyDoc, call.collection))
    /\ UNCHANGED unchangedByCalls

ApplyTestsCalls ==
    {[fn |-> "applyTestsAsExtensions", spec |-> d, collection |-> c] :
        d \in StoreDocs, c \in StoreCollections}
ApplyTestsAsExtensions ==
    /\ call.fn = "applyTestsAsExtensions" /\ ~ret.done
    /\ ret' = Returned(applyTestsAsExtensions(call.spec, call.collection))
    /\ UNCHANGED unchangedByCalls

InitCall ==
    /\ InitCalls
    /\ workspace = EmptyWorkspace
    /\ call \in GetBaselinePathCalls \cup PathsMatchCalls \cup FindOperationCalls
                \cup ExtractChangesCalls \cup ApplyTestsCalls

NextCall ==
    \/ GetBaselinePath
    \/ PathsMatch
    \/ FindOperation
    \/ ExtractChangesFromCollection
    \/ ApplyTestsAsExtensions

SpecCalls == InitCall /\ [][NextCall]_vars

\* ------------------------------------------------------------------------
\* SpecHubClient: polling and retry (spec-hub-client.js 175-254)
\* ------------------------------------------------------------------------
DelayStart == 2000
DelayMax == 10000
DefaultMaxRetries == 3
RetryUnit == 1000
ServerErrorFrom == 500

Min(a, b) == IF a < b THEN a ELSE b
RECURSIVE Pow(_, _)
Pow(b, e) == IF e = 0 THEN 1 ELSE b * Pow(b, e - 1)

\* a settled promise
Resolved(value) == [done |-> TRUE, threw |-> FALSE, value |-> value]
Rejected(error) == [done |-> TRUE, threw |-> TRUE, value |-> error]

\* request: a response that is not ok throws `API Error ${status}: ...`;
\* a failing fetch or an unparsable body throws an error without a status
Statuses == {404, 499, 500, 503}
ApiError(status) == [message |-> <<"API Error", status>>]
NetworkError == [message |-> <<"fetch failed">>]
\* the value of lastError before any attempt has failed
UndefinedError == [message |-> <<>>]
TimeoutError == [message |-> <<"timed out">>]

\* error.message.match(/API Error (\d+)/)?.[1], and parseInt of it
HasStatusCode(error) == Len(error.message) = 2 /\ error.message[1] = "API Error"
StatusCode(error) == error.message[2]

\* what GET /collections/{uid} answers: a body with or without .collection
CollectionBody(hasCollection) == [collection |-> hasCollection]
GetCollectionOutcomes ==
    {Resolved(CollectionBody(b)) : b \in BOOLEAN}
        \cup {Rejected(ApiError(s)) : s \in Statuses} \cup {Rejected(NetworkError)}

\* what GET /collections?workspace= answers: a body with or without
\* .collections, a list of collections with their names
NameWanted == "wanted"
NameOther == "other"
Listed(name, uid) == [name |-> name, uid |-> uid]
ListBody(hasList, names) == [hasCollections |-> hasList, collections |-> names]
ListOutcomes ==
    {Resolved(ListBody(TRUE, l)) :
        l \in {<<>>, <<Listed(NameOther, 1)>>,
                <<Listed(NameOther, 1), Listed(NameWanted, 2)>>,
                <<Listed(NameWanted, 2), Listed(NameWanted, 3)>>}}
        \cup {Resolved(ListBody(FALSE, <<>>))}
        \cup {Rejected(ApiError(s)) : s \in Statuses} \cup {Rejected(NetworkError)}

\* collections.collections?.find(c => c.name === name): its index, 0 for undefined
FindByName(body, name) ==
    IF body.hasCollections
          /\ \E k \in 1..Len(body.collections) : body.collections[k].name = name
    THEN CHOOSE k \in 1..Len(body.collections) :
            /\ body.collections[k].name = name
            /\ \A j \in 1..(k - 1) : body.collections[j].name # name
    ELSE 0

\* the locals of getCollectionWithRetry: the loop index, lastError, and the
\* calls of getCollection and of sleep it has made
NoRetry == [phase |-> "none"]
retryEntry(maxRetries) ==
    [phase |-> IF 0 < maxRetries THEN "try" ELSE "settled",
     i |-> 0, lastError |-> UndefinedError,
     calls |-> 0, sleeps |-> <<>>, errors |-> <<>>,
     out |-> IF 0 < maxRetries THEN NoRet ELSE Rejected(UndefinedError)]

\* a retry that also retries the errors below 500
afterAttempt_retriesAll(r, o, maxRetries) ==
    LET r1 == [r EXCEPT !.calls = @ + 1] IN
    IF ~o.threw THEN [r1 EXCEPT !.phase = "settled", !.out = o]
    ELSE LET r2 == [r1 EXCEPT !.lastError = o.value, !.errors = Append(@, o.value)] IN
         IF r.i < maxRetries - 1
         THEN [r2 EXCEPT !.phase = "sleep",
                         !.sleeps = Append(@, Pow(2, r.i) * RetryUnit)]
         ELSE [r2 EXCEPT !.i = @ + 1, !.phase = "settled", !.out = Rejected(o.value)]

\* getCollection has settled with o (lines 234-251, and 253 when the loop ends)
afterAttempt(r, o, maxRetries) ==
    LET r1 == [r EXCEPT !.calls = @ + 1] IN
    IF ~o.threw THEN [r1 EXCEPT !.phase = "settled", !.out = o]
    ELSE LET r2 == [r1 EXCEPT !.lastError = o.value, !.errors = Append(@, o.value)] IN
         IF HasStatusCode(o.value) /\ StatusCode(o.value) < ServerErrorFrom
         THEN [r2 EXCEPT !.phase = "settled", !.out = Rejected(o.value)]
         ELSE IF r.i < maxRetries - 1
         THEN [r2 EXCEPT !.phase = "sleep",
                         !.sleeps = Append(@, Pow(2, r.i) * RetryUnit)]
         ELSE [r2 EXCEPT !.i = @ + 1, !.phase = "settled", !.out = Rejected(r2.lastError)]

\* the sleep of line 248 is over: next iteration
afterRetrySleep(r) == [r EXCEPT !.i = @ + 1, !.phase = "try"]

\* Math.min(delay * 1.5, 10000); every delay reached from 2000 is a whole
\* number of milliseconds
nextDelay(delay) == Min((delay * 3) \div 2, DelayMax)

\* the locals of waitForCollectionSync / waitForCollectionGeneration: i,
\* delay, the polls made and the delays slept, and the call of
\* getCollectionWithRetry in flight
waitEntry(maxAttempts) ==
    [phase |-> IF 0 < maxAttempts THEN "sleep" ELSE "end",
     i |-> 0, delay |-> DelayStart, polls |-> 0,
     sleeps |-> IF 0 < maxAttempts THEN <<DelayStart>> ELSE <<>>,
     lastPoll |-> "none", r |-> NoRetry,
     out |-> IF 0 < maxAttempts THEN NoRet ELSE Rejected(TimeoutError)]

\* a wait that polls once more than maxAttempts
afterPoll_oneMore(f, found, value, maxAttempts) ==
    LET f1 == [f EXCEPT !.polls = @ + 1,
                        !.lastPoll = IF found THEN "found" ELSE "not found"] IN
    IF found THEN [f1 EXCEPT !.phase = "end", !.out = Resolved(value)]
    ELSE IF f.i < maxAttempts
    THEN [f1 EXCEPT !.i = @ + 1, !.delay = nextDelay(f.delay), !.phase = "sleep",
                    !.sleeps = Append(@, nextDelay(f.delay))]
    ELSE [f1 EXCEPT !.i = @ + 1, !.delay = nextDelay(f.delay), !.phase = "end",
                    !.out = Rejected(TimeoutError)]

\* a poll has settled (lines 182-197, 209-224): return what it found, or
\* back off and sleep again, or time out
afterPoll(f, found, value, maxAttempts) ==
    LET f1 == [f EXCEPT !.polls = @ + 1,
                        !.lastPoll = IF found THEN "found" ELSE "not found"] IN
    IF found THEN [f1 EXCEPT !.phase = "end", !.out = Resolved(value)]
    ELSE IF f.i + 1 < maxAttempts
    THEN [f1 EXCEPT !.i = @ + 1, !.delay = nextDelay(f.delay), !.phase = "sleep",
                    !.sleeps = Append(@, nextDelay(f.delay))]
    ELSE [f1 EXCEPT !.i = @ + 1, !.delay = nextDelay(f.delay), !.phase = "end",
                    !.out = Rejected(TimeoutError)]

\* collection && collection.collection, false when the call threw
SyncFound(out) == ~out.threw /\ out.value.collection

\* getCollectionWithRetry has taken a step: it settles its caller when it
\* has settled itself
afterRetry(f, r, fn, maxAttempts) ==
    IF r.phase # "settled" THEN [f EXCEPT !.r = r]
    ELSE IF fn = "getCollectionWithRetry"
    THEN [f EXCEPT !.r = r, !.phase = "end", !.out = r.out]
    ELSE afterPoll([f EXCEPT !.r = r], SyncFound(r.out), r.out.value, maxAttempts)

WaitFns == {"waitForCollectionSync", "waitForCollectionGeneration"}
WaitCalls == [fn : WaitFns, maxAttempts : 0..MaxAttempts]
RetryCalls == [fn : {"getCollectionWithRetry"}, maxRetries : 0..MaxRetries]

maxRetriesOf(c) == IF c.fn = "getCollectionWithRetry" THEN c.maxRetries ELSE DefaultMaxRetries
maxAttemptsOf(c) == IF c.fn \in WaitFns THEN c.maxAttempts ELSE 0

unchangedByClient ==
    <<files, remoteApi, collection, config, options, pc, locals, result, runs,
      wroteSpec, wroteBaseline, crashed, call, workspace, manifest>>

\* waitForCollectionSync / waitForCollectionGeneration up to the first await
WaitEnter ==
    /\ call.fn \in WaitFns
    /\ frame = NoFrame
    /\ frame' = waitEntry(call.maxAttempts)
    /\ ret' = frame'.out
    /\ UNCHANGED unchangedByClient

\* the sleep of line 179 / 207 is over: the poll is sent
WaitSleep ==
    /\ call.fn \in WaitFns
    /\ frame.phase = "sleep"
    /\ frame' = IF call.fn = "waitForCollectionSync"
                THEN [frame EXCEPT !.phase = "retry", !.r = retryEntry(DefaultMaxRetries)]
                ELSE [frame EXCEPT !.phase = "request"]
    /\ UNCHANGED <<unchangedByClient, ret>>

\* waitForCollectionGeneration: the request of line 210 has settled
WaitRequest ==
    /\ call.fn = "waitForCollectionGeneration"
    /\ frame.phase = "request"
    /\ \E o \in ListOutcomes :
          LET k == IF o.threw THEN 0 ELSE FindByName(o.value, NameWanted)
          IN  frame' = afterPoll(frame, k > 0,
                                 IF k > 0 THEN o.value.collections[k] ELSE o.value,
                                 call.maxAttempts)
    /\ ret' = frame'.out
    /\ UNCHANGED unchangedByClient

\* getCollectionWithRetry up to the first await
RetryEnter ==
    /\ call.fn = "getCollectionWithRetry"
    /\ frame = NoFrame
    /\ frame' = afterRetry([phase |-> "retry", r |-> NoRetry, out |-> NoRet],
                           retryEntry(call.maxRetries), call.fn, 0)
    /\ ret' = frame'.out
    /\ UNCHANGED unchangedByClient

\* getCollection (line 235) has settled
RetryAttempt ==
    /\ frame.phase = "retry"
    /\ frame.r.phase = "try"
    /\ \E o \in GetCollectionOutcomes :
          frame' = afterRetry(frame, afterAttempt(frame.r, o, maxRetriesOf(call)),
                              call.fn, maxAttemptsOf(call))
    /\ ret' = frame'.out
    /\ UNCHANGED unchangedByClient

\* the sleep of line 248 is over
RetrySleep ==
    /\ frame.phase = "retry"
    /\ frame.r.phase = "sleep"
    /\ frame' = [frame EXCEPT !.r = afterRetrySleep(frame.r)]
    /\ UNCHANGED <<unchangedByClient, ret>>

\* ------------------------------------------------------------------------
\* SpecHubClient.addTestsToItems (spec-hub-client.js 296-323)
\* ------------------------------------------------------------------------
\* a test script: an array of lines, or one string
ArrayScript(lines) == [isArray |-> TRUE, lines |-> lines, text |-> <<>>]
StringScript(text) == [isArray |-> FALSE, lines |-> <<>>, text |-> text]
\* what the lookup of a missing key gives
UndefinedScript == StringScript(<<>>)
\* arrays and non-empty strings are truthy
Truthy(script) == script.isArray \/ Len(script.text) > 0

\* testScripts[item.name] || testScripts['default']
lookupScript(testScripts, name) ==
    IF name \in DOMAIN testScripts /\ Truthy(testScripts[name])
    THEN testScripts[name]
    ELSE IF "default" \in DOMAIN testScripts THEN testScripts["default"]
    ELSE UndefinedScript

\* Array.isArray(testScript) ? testScript : testScript.split('\n')
execOf(script) == IF script.isArray THEN script.lines ELSE split(script.text, "\n")

\* the new test event pushed behind the existing ones
withTestEvent_accumulates(item, script) ==
    [item EXCEPT !.hasEvent = TRUE,
                 !.event = Append(IF item.hasEvent THEN item.event ELSE <<>>,
                                  Event("test", execOf(script)))]

\* lines 302-314: the existing test events removed, the new one pushed
withTestEvent(item, script) ==
    [item EXCEPT !.hasEvent = TRUE,
                 !.event = Append(SelectSeq(IF item.hasEvent THEN item.event ELSE <<>>,
                                            LAMBDA e : e.listen # "test"),
                                  Event("test", execOf(script)))]

\* the items as addTestsToItems leaves them
RECURSIVE addTestsToItems(_, _, _)
addTestsToItems(items, testScripts, i) ==
    IF i > Len(items) THEN <<>>
    ELSE LET testScript == lookupScript(testScripts, items[i].name)
             tested == IF items[i].hasRequest /\ Truthy(testScript)
                       THEN withTestEvent(items[i], testScript)
                       ELSE items[i]
             done == IF tested.hasItem
                     THEN [tested EXCEPT !.item = addTestsToItems(tested.item, testScripts, 1)]
                     ELSE tested
         IN  <<done>> \o addTestsToItems(items, testScripts, i + 1)

\* scripts, script maps and items handed to addTestsToItems
Scripts ==
    {ArrayScript(<<>>), ArrayScript(<<<<"x">>, <<"y", "z">>>>),
     StringScript(<<"a", "\n", "b">>), StringScript(<<"c">>)}
ScriptMaps == UNION {[keys -> Scripts] : keys \in SUBSET {"A", "default"}}
PlainA == Request("A", Undef, <<SegTest>>, "GET", FALSE, <<>>)
TestedA == Request("A", Undef, <<SegTest>>, "GET", TRUE,
                   <<Event("test", <<<<"o", "1">>>>), Event("prerequest", <<<<"p">>>>),
                     Event("test", <<<<"o", "2">>>>)>>)
TestedB == Request("B", Undef, <<SegTest2>>, "GET", TRUE,
                   <<Event("prerequest", <<<<"q">>>>), Event("test", <<<<"o", "3">>>>)>>)
FolderDeep == Folder("A", <<TestedB, Folder("Deep", <<TestedA>>)>>)
RequestWithItems == [TestedB EXCEPT !.hasItem = TRUE, !.item = <<PlainA>>]
EmptyItem == [Folder("A", <<>>) EXCEPT !.hasItem = FALSE]
ClientItems == {PlainA, TestedA, TestedB, FolderDeep, RequestWithItems, EmptyItem}
AddTestsCalls ==
    {[fn |-> "addTestsToItems", items |-> items, testScripts |-> ts] :
        items \in UNION {[1..n -> ClientItems] : n \in 0..MaxItems}, ts \in ScriptMaps}

AddTestsToItems ==
    /\ call.fn = "addTestsToItems" /\ ~ret.done
    /\ ret' = Resolved(addTestsToItems(call.items, call.testScripts, 1))
    /\ UNCHANGED <<unchangedByClient, frame>>

InitClient ==
    /\ InitCalls
    /\ workspace = EmptyWorkspace
    /\ call \in WaitCalls \cup RetryCalls \cup AddTestsCalls

NextClient ==
    \/ WaitEnter
    \/ WaitSleep
    \/ WaitRequest
    \/ RetryEnter
    \/ RetryAttempt
    \/ RetrySleep
    \/ AddTestsToItems

\* every sleep is a timer that fires and every request settles (fetch ends
\* with a response or an error), so a call that can take a step takes it
SpecClient == InitClient /\ [][NextClient]_vars /\ WF_vars(NextClient)

\* ------------------------------------------------------------------------
\* RepoSync: export to the repository and drift detection
\* (src/unnamed/part_001 38-108, 263-373; part_002 123-193)
\* ------------------------------------------------------------------------
\* names are sequences of words; the title of the spec is the first word
TitleApi == <<"api">>
TitleOther == <<"other">>
SpecTitles == {TitleApi, TitleOther}
SmokeSuffix == " - Smoke Tests"
ContractSuffix == " - Contract Tests"

\* the collections and environments the workspace can hold, by uid
CollectionNames ==
    [u \in 1..2 |-> IF u = 1 THEN TitleApi ELSE <<"other", ContractSuffix>>]
EnvironmentNames ==
    [u \in 3..4 |-> IF u = 3 THEN <<"api", " dev">> ELSE <<"staging">>]

\* GET /collections?workspace= and GET /environments?workspace=: the
\* entities that exist, with uid, name and updatedAt
RECURSIVE Listing(_, _, _, _)
Listing(names, times, u, last) ==
    IF u > last THEN <<>>
    ELSE (IF times[u] > 0
          THEN <<[uid |-> u, name |-> names[u], updatedAt |-> times[u]]>>
          ELSE <<>>) \o Listing(names, times, u + 1, last)
getWorkspaceCollections(ws) == Listing(CollectionNames, ws.collections, 1, 2)
getWorkspaceEnvironments(ws) == Listing(EnvironmentNames, ws.environments, 3, 4)

\* c.name === specName || c.name === `${specName} - Smoke Tests` || ...
IsRelevantCollection(c, specName) ==
    \/ c.name = specName
    \/ c.name = Append(specName, SmokeSuffix)
    \/ c.name = Append(specName, ContractSuffix)
\* e.name.startsWith(specName)
StartsWith(name, prefix) ==
    Len(prefix) <= Len(name) /\ SubSeq(name, 1, Len(prefix)) = prefix

\* exportCollections / exportEnvironments: one record for each entity whose
\* fetch did not fail, with the updatedAt it has
RECURSIVE exportAll(_, _, _)
exportAll(listed, failed, i) ==
    IF i > Len(listed) THEN <<>>
    ELSE (IF listed[i].uid \in failed THEN <<>>
          ELSE <<[uid |-> listed[i].uid, updatedAt |-> listed[i].updatedAt]>>)
         \o exportAll(listed, failed, i + 1)

\* the entries of the manifest after the loop of lines 290-298 / 301-309
RECURSIVE putEntries(_, _, _)
putEntries(entries, exports, i) ==
    IF i > Len(exports) THEN entries
    ELSE putEntries([u \in DOMAIN entries \cup {exports[i].uid} |->
                        IF u = exports[i].uid
                        THEN [updatedAt |-> exports[i].updatedAt]
                        ELSE entries[u]],
                    exports, i + 1)

\* updateManifest: the entries of the exported entities set, the others kept
updateManifest(m, collections, environments) ==
    [collections |-> putEntries(m.collections, collections, 1),
     environments |-> putEntries(m.environments, environments, 1)]

\* the loop of lines 335-351 / 354-370 over a listing
RECURSIVE changesOf(_, _, _, _)
changesOf(listed, tracked, i, acc) ==
    IF i > Len(listed) THEN acc
    ELSE changesOf(listed, tracked, i + 1,
            IF listed[i].uid \notin DOMAIN tracked
            THEN [list |-> Append(acc.list, [uid |-> listed[i].uid, name |-> listed[i].name,
                                             change |-> "new"]),
                  hasChanges |-> TRUE]
            ELSE IF tracked[listed[i].uid].updatedAt # listed[i].updatedAt
            THEN [list |-> Append(acc.list, [uid |-> listed[i].uid, name |-> listed[i].name,
                                             change |-> "modified"]),
                  hasChanges |-> TRUE]
            ELSE acc)

\* RepoSync.detectChanges
repoDetectChanges(m, ws) ==
    LET c == changesOf(getWorkspaceCollections(ws), m.collections, 1,
                       [list |-> <<>>, hasChanges |-> FALSE])
        e == changesOf(getWorkspaceEnvironments(ws), m.environments, 1,
                       [list |-> <<>>, hasChanges |-> c.hasChanges])
    IN  [collections |-> c.list, environments |-> e.list, hasChanges |-> e.hasChanges]

Workspaces == [collections : [1..2 -> 0..MaxTime], environments : [3..4 -> 0..MaxTime]]

unchangedByRepo ==
    <<files, remoteApi, collection, config, options, pc, locals, result, runs,
      wroteSpec, wroteBaseline, crashed, frame>>

\* runRepoSync; failed are the entities whose fetch throws
RunRepoSync ==
    /\ ~ret.done
    /\ \E specName \in SpecTitles, envs \in BOOLEAN, failed \in SUBSET (1..4) :
          LET relevant == SelectSeq(getWorkspaceCollections(workspace),
                                    LAMBDA c : IsRelevantCollection(c, specName))
              relevantEnvs == SelectSeq(getWorkspaceEnvironments(workspace),
                                        LAMBDA e : StartsWith(e.name, specName))
              collections == exportAll(relevant, failed, 1)
              environments == IF envs THEN exportAll(relevantEnvs, failed, 1) ELSE <<>>
          IN  /\ failed \subseteq {relevant[k].uid : k \in 1..Len(relevant)}
                                \cup {relevantEnvs[k].uid : k \in 1..Len(relevantEnvs)}
              /\ call' = [fn |-> "runRepoSync", specName |-> specName, envs |-> envs]
              /\ IF Len(relevant) = 0
                 THEN /\ manifest' = manifest
                      /\ ret' = Returned([updated |-> FALSE, failed |-> {}])
                 ELSE /\ manifest' = updateManifest(manifest, collections, environments)
                      /\ ret' = Returned([updated |-> TRUE, failed |-> failed])
    /\ UNCHANGED <<unchangedByRepo, workspace>>

\* RepoSync.detectChanges(outputDir)
RepoDetectChanges ==
    /\ ~ret.done
    /\ call' = [fn |-> "detectChanges"]
    /\ ret' = Returned(repoDetectChanges(manifest, workspace))
    /\ UNCHANGED <<unchangedByRepo, workspace, manifest>>

\* the command has printed its result and the process ends
RepoExit ==
    /\ ret.done
    /\ call' = NoCall
    /\ ret' = NoRet
    /\ UNCHANGED <<unchangedByRepo, workspace, manifest>>

\* somebody creates or edits a collection in Postman
PostmanEditCollection ==
    /\ ~ret.done
    /\ \E u \in 1..2 :
          /\ workspace.collections[u] < MaxTime
          /\ workspace' = [workspace EXCEPT !.collections[u] = @ + 1]
    /\ UNCHANGED <<unchangedByRepo, manifest, call, ret>>

\* somebody creates or edits an environment in Postman
PostmanEditEnvironment ==
    /\ ~ret.done
    /\ \E u \in 3..4 :
          /\ workspace.environments[u] < MaxTime
          /\ workspace' = [workspace EXCEPT !.environments[u] = @ + 1]
    /\ UNCHANGED <<unchangedByRepo, manifest, call, ret>>

InitRepo ==
    /\ InitCalls
    /\ call = NoCall
    /\ workspace \in Workspaces

NextRepo ==
    \/ RunRepoSync
    \/ RepoDetectChanges
    \/ RepoExit
    \/ PostmanEditCollection
    \/ PostmanEditEnvironment

SpecRepo == InitRepo /\ [][NextRepo]_vars

\* ------------------------------------------------------------------------
\* Properties
\* ------------------------------------------------------------------------
HasRecord(records, leaf) == \E i \in 1..Len(records) : records[i].path = leaf
InNoBucket(chg, leaf) ==
    /\ ~HasRecord(chg.safeToSync, leaf)
    /\ ~HasRecord(chg.needsReview, leaf)
    /\ ~HasRecord(chg.blocked, leaf)
    /\ ~HasRecord(chg.tests, leaf)
\* the call has run detectChanges (not the degraded extraction)
Detected == remoteSpec.ok /\ pc \in {"decide", "merged", "tested", "backedUp", "written", "done"}
\* mergeResult is what mergeSpecs returned, before the test extensions are added
Merged == pc = "merged"
Redetect == detectChanges(mergeResult.spec, mergeResult.spec, remoteSpec.doc)
NewRemotePath(p) ==
    p \in PathKeys(remoteSpec.doc) /\ p \notin PathKeys(baseSpec) /\ p \notin PathKeys(localSpec)
PairwiseDistinct(leaf) ==
    /\ getLeaf(baseSpec, leaf) # getLeaf(localSpec, leaf)
    /\ getLeaf(baseSpec, leaf) # getLeaf(remoteSpec.doc, leaf)
    /\ getLeaf(localSpec, leaf) # getLeaf(remoteSpec.doc, leaf)
LocalOnlyEdit(leaf) ==
    /\ getLeaf(baseSpec, leaf) = getLeaf(remoteSpec.doc, leaf)
    /\ getLeaf(localSpec, leaf) # getLeaf(baseSpec, leaf)

\* C1: when the remote document equals the baseline, detectChanges returns
\* four empty buckets, whatever the local document holds.
C1_RemoteEqualsBaseline ==
    (Detected /\ remoteSpec.doc = baseSpec) => changes = EmptyChanges
C1_Witness ==
    /\ Detected /\ pc = "decide"
    /\ remoteSpec.doc = baseSpec
    /\ localSpec # baseSpec
    /\ PathKeys(localSpec) # PathKeys(baseSpec)

\* C2: after merging the safe changes into L, a detection with
\* the merged document as baseline and local finds nothing safe to sync.
C2_Original ==
    (Merged /\ remoteSpec.ok) => Redetect.safeToSync = <<>>
\* What does hold next to C2: no change the merge applied reappears, neither in
\* a detection with the merged document as baseline and local nor in one with
\* the saved baseline and the merged document; what reappears was not applied.
C2_AppliedNeverReappear ==
    /\ (Merged /\ remoteSpec.ok) =>
          \A i \in 1..Len(mergeResult.applied) :
              ~HasRecord(Redetect.safeToSync, mergeResult.applied[i].path)
    /\ (pc = "done" /\ remoteSpec.ok /\ result.status = "synced") =>
          \A i \in 1..Len(mergeResult.applied) :
              ~HasRecord(detectChanges(baselineFile.doc, mergeResult.spec,
                                       remoteSpec.doc).safeToSync,
                         mergeResult.applied[i].path)
C2_Witness ==
    /\ pc = "done" /\ remoteSpec.ok /\ result.status = "synced"
    /\ Len(mergeResult.applied) > 0
    /\ detectChanges(baselineFile.doc, mergeResult.spec, remoteSpec.doc).safeToSync # <<>>

\* C3: a descriptive leaf whose baseline, local and remote values are pairwise
\* distinct is in needsReview with hasConflict, in no other bucket, and with
\* spec-wins the merged document keeps the local value.
C3_Divergence ==
    Detected =>
      \A leaf \in Leaves :
        (IsDescriptive(leaf) /\ PairwiseDistinct(leaf)) =>
          /\ \E i \in 1..Len(changes.needsReview) :
                /\ changes.needsReview[i].path = leaf
                /\ changes.needsReview[i].hasConflict
          /\ ~HasRecord(changes.safeToSync, leaf)
          /\ ~HasRecord(changes.blocked, leaf)
          /\ ~HasRecord(changes.tests, leaf)
          /\ (Merged /\ config.conflictStrategy = "spec-wins") =>
                getLeaf(mergeResult.spec, leaf) = getLeaf(localSpec, leaf)
C3_Witness ==
    /\ Detected /\ Merged
    /\ config.conflictStrategy = "spec-wins"
    /\ \E leaf \in Leaves :
          /\ IsDescriptive(leaf) /\ PairwiseDistinct(leaf)
          /\ getLeaf(baseSpec, leaf) # <<Undef>>
          /\ getLeaf(localSpec, leaf) # <<Undef>>
          /\ getLeaf(remoteSpec.doc, leaf) # <<Undef>>

\* C4: a path only the remote has is blocked, and neither it nor
\* any leaf beneath it is in safeToSync; the merge adds no path key.
C4_Original ==
    Detected =>
      \A p \in Paths :
        NewRemotePath(p) =>
          /\ \E i \in 1..Len(changes.blocked) :
                changes.blocked[i].path.p = p /\ IsStructural(changes.blocked[i].path)
          /\ \A i \in 1..Len(changes.safeToSync) : changes.safeToSync[i].path.p # p
          /\ Merged => PathKeys(mergeResult.spec) \subseteq PathKeys(localSpec)
\* What does hold next to C4: a path only the remote has is blocked and is
\* itself never in safeToSync under either strategy; a descriptive leaf beneath
\* it can be in safeToSync, but mergeSpecs skips it, and the merge adds no path
\* key.
C4_NewPathBlocked ==
    Detected =>
      \A p \in Paths :
        NewRemotePath(p) =>
          /\ \E i \in 1..Len(changes.blocked) :
                changes.blocked[i].path.p = p /\ IsStructural(changes.blocked[i].path)
          /\ \A i \in 1..Len(changes.safeToSync) :
                changes.safeToSync[i].path.p = p => IsDescriptive(changes.safeToSync[i].path)
          /\ pc \in {"merged", "tested", "backedUp", "written", "done"} =>
                /\ \A i \in 1..Len(mergeResult.applied) : mergeResult.applied[i].path.p # p
                /\ PathKeys(mergeResult.spec) \subseteq PathKeys(localSpec)
C4_Witness ==
    /\ Detected /\ Merged
    /\ \E p \in Paths :
          /\ NewRemotePath(p)
          /\ \E i \in 1..Len(mergeResult.skipped) : mergeResult.skipped[i].path.p = p
          /\ \E c \in Strategies : config.conflictStrategy = c

\* C5: a leaf only the local document changed (baseline = remote) gets no
\* record in any bucket, and the merged document keeps the local value.
C5_LocalOnlyEdit ==
    Detected =>
      \A leaf \in Leaves :
        LocalOnlyEdit(leaf) =>
          /\ InNoBucket(changes, leaf)
          /\ Merged => getLeaf(mergeResult.spec, leaf) = getLeaf(localSpec, leaf)
C5_Witness ==
    /\ Detected /\ Merged
    /\ Len(mergeResult.applied) > 0
    /\ \E leaf \in Leaves : IsDescriptive(leaf) /\ LocalOnlyEdit(leaf)

\* C6: the merged document differs from local only at the leaves of the
\* applied records, and each of those holds the record's newValue.
C6_MergeFrame ==
    Merged =>
      /\ \A leaf \in Leaves :
            getLeaf(mergeResult.spec, leaf) # getLeaf(localSpec, leaf) =>
                HasRecord(mergeResult.applied, leaf)
      /\ \A i \in 1..Len(mergeResult.applied) :
            /\ IsDocLeaf(mergeResult.applied[i].path)
            /\ getLeaf(mergeResult.spec, mergeResult.applied[i].path)
                  = mergeResult.applied[i].newValue
C6_Witness ==
    /\ Merged
    /\ Len(mergeResult.applied) > 0
    /\ mergeResult.spec # localSpec
    /\ \E leaf \in Leaves :
          /\ ~HasRecord(mergeResult.applied, leaf)
          /\ getLeaf(localSpec, leaf) # getLeaf(remoteSpec.doc, leaf)

\* C7: every record handed to mergeSpecs ends in exactly one of applied and
\* skipped, in input order; the ones whose path does not resolve are skipped
\* with reason "path no longer present" and the records after them are still
\* processed.
PathsOf(records) == [i \in 1..Len(records) |-> records[i].path]
C7_StaleSkipped ==
    Merged =>
      /\ PathsOf(mergeResult.applied) =
            PathsOf(SelectSeq(changes.safeToSync,
                              LAMBDA r : PathResolves(localSpec, r.path)))
      /\ PathsOf(mergeResult.skipped) =
            PathsOf(SelectSeq(changes.safeToSync,
                              LAMBDA r : ~PathResolves(localSpec, r.path)))
      /\ \A i \in 1..Len(mergeResult.skipped) :
            mergeResult.skipped[i].reason = "path no longer present"
C7_Witness ==
    /\ Merged
    /\ Len(changes.safeToSync) = 2
    /\ ~PathResolves(localSpec, changes.safeToSync[1].path)
    /\ Len(mergeResult.skipped) = 1
    /\ Len(mergeResult.applied) = 1
    /\ mergeResult.applied[1].path = changes.safeToSync[2].path

\* C8: under every conflict strategy only safeToSync records are applied;
\* nothing classified needsReview or blocked is.
C8_OnlySafeApplied ==
    pc \in {"merged", "tested", "backedUp", "written", "done"} =>
      \A i \in 1..Len(mergeResult.applied) :
        /\ HasRecord(changes.safeToSync, mergeResult.applied[i].path)
        /\ ~HasRecord(changes.needsReview, mergeResult.applied[i].path)
        /\ ~HasRecord(changes.blocked, mergeResult.applied[i].path)
        /\ pc = "done" => result.applied = mergeResult.applied
C8_Witness ==
    /\ pc = "done" /\ result.status = "synced"
    /\ config.conflictStrategy = "collection-wins"
    /\ Len(changes.needsReview) > 0
    /\ Len(changes.blocked) > 0
    /\ Len(result.applied) > 0

\* C9: in no state has the running call saved the baseline without having
\* written the merged spec.
C9_BaselineAfterSpec == wroteBaseline => wroteSpec
C9_Witness ==
    /\ pc = "done" /\ wroteBaseline /\ wroteSpec
    /\ baselineFile = File(mergeResult.spec)
    /\ runs = MaxRuns

\* C10: the call after one killed between writing the merged spec and saving
\* the baseline reports none of the changes applied then as conflict or
\* blocked, and produces the document that was already written.
C10_CrashRecovery ==
    crashed.valid =>
      /\ pc = "decide" =>
            \A i \in 1..Len(crashed.applied) :
                /\ ~HasRecord(changes.needsReview, crashed.applied[i].path)
                /\ ~HasRecord(changes.blocked, crashed.applied[i].path)
      /\ pc \in {"tested", "backedUp", "written"} => mergeResult.spec = crashed.doc
      /\ pc = "written" =>
            (IF options.inPlace THEN specFile.doc ELSE outFile.doc) = crashed.doc
      /\ pc = "done" => specFile.doc = crashed.doc
C10_Witness ==
    /\ crashed.valid
    /\ pc = "written"
    /\ Len(crashed.applied) > 0
    /\ mergeResult.spec = crashed.doc
    /\ baselineFile.exists /\ baselineFile.doc # crashed.doc

\* C11: the baseline file changes only in the step that ends a run with status
\* 'synced'; a run that ends 'dry-run' or 'no-changes', or that dies at any
\* point before that step, leaves it as it was.
C11_BaselineOnlySynced ==
    [][(baselineFile' # baselineFile \/ (wroteBaseline' /\ ~wroteBaseline)) =>
          (pc = "written" /\ wroteSpec /\ pc' = "done" /\ result'.status = "synced")]_vars
C11_Witness ==
    /\ pc = "done" /\ runs = MaxRuns
    /\ result.status \in {"dry-run", "no-changes"}
    /\ ~wroteBaseline
    /\ baselineFile.exists /\ baselineFile.doc # localSpec

\* C12: a baseline file that exists but cannot be read or parsed does not end
\* the run: loadBaseline answers null and the run goes on with the local spec
\* as its baseline, so the detection is that of (local, local, remote).
C12_CorruptBaseline ==
    (baselineFile = Corrupt /\ pc # "idle") =>
        /\ loadBaseline(baselineFile) = Null
        /\ pc # "failed"
        /\ baseSpec = localSpec
        /\ (remoteSpec.ok /\ pc # "detect") =>
              changes = detectChanges(localSpec, localSpec, remoteSpec.doc)
C12_Witness ==
    /\ baselineFile = Corrupt /\ pc = "written"
    /\ baseSpec = localSpec /\ localSpec # EmptyDoc
    /\ remoteSpec.ok /\ Len(mergeResult.applied) > 0

\* C13: two distinct specification file paths never get the same baseline
\* file path, so the baseline of one is never written over that of another.
C13_Original ==
    (call.fn = "getBaselinePath" /\ ret.done /\ call.specPath # call.otherPath) =>
        ret.value[1] # ret.value[2]

\* C14: when the transformation of the collection fails, the call goes on
\* with the changes extractChangesFromCollection draws from the raw collection
\* and ends with one of the statuses dry-run, no-changes and synced.
Degraded == ~remoteSpec.ok /\ pc \in {"decide", "merged", "tested", "backedUp", "written", "done"}
RECURSIVE RequestItems(_, _)
RequestItems(items, i) ==
    IF i > Len(items) THEN <<>>
    ELSE (IF items[i].hasItem THEN RequestItems(items[i].item, 1)
          ELSE IF items[i].hasRequest THEN <<items[i]>> ELSE <<>>)
         \o RequestItems(items, i + 1)
HasTestEvents(item) == \E j \in 1..Len(item.event) : item.event[j].listen = "test"

\* C15: the degraded ChangeSet has empty needsReview and blocked; safeToSync
\* holds one Bidirectional record for each request item with a description,
\* tests one CollectionOnly record for each request item with a test event,
\* both in depth-first order of the collection, folders at any depth.
C15_DegradedChangeSet ==
    (call.fn = "extractChangesFromCollection" /\ ret.done) =>
        LET reqs == RequestItems(call.collection.item, 1)
            described == SelectSeq(reqs, LAMBDA it : it.description # Undef)
            tested == SelectSeq(reqs, HasTestEvents)
            chg == ret.value
        IN  /\ chg.needsReview = <<>>
            /\ chg.blocked = <<>>
            /\ Len(chg.safeToSync) = Len(described)
            /\ \A i \in 1..Len(described) :
                  /\ chg.safeToSync[i].path = RequestLeaf(described[i].name, "description")
                  /\ chg.safeToSync[i].newValue = described[i].description
                  /\ chg.safeToSync[i].direction = "Bidirectional"
            /\ Len(chg.tests) = Len(tested)
            /\ \A i \in 1..Len(tested) :
                  /\ chg.tests[i].path = RequestLeaf(tested[i].name, "tests")
                  /\ chg.tests[i].newValue = TestEvents(tested[i].event)
                  /\ chg.tests[i].direction = "CollectionOnly"
C15_Witness ==
    /\ call.fn = "extractChangesFromCollection" /\ ret.done
    /\ call.collection.item = <<FolderUsers, ItemPlain>>
    /\ Len(ret.value.safeToSync) = 2
    /\ Len(ret.value.tests) = 2

\* a request item with test events and no url
Malformed(item) ==
    item.hasRequest /\ item.request.url.kind = "undefined" /\ HasTestEvents(item)
\* the collection without its malformed items
RECURSIVE WellFormedItems(_, _)
WellFormedItems(items, i) ==
    IF i > Len(items) THEN <<>>
    ELSE (IF items[i].hasItem
          THEN <<[items[i] EXCEPT !.item = WellFormedItems(items[i].item, 1)]>>
          ELSE IF Malformed(items[i]) THEN <<>> ELSE <<items[i]>>)
         \o WellFormedItems(items, i + 1)
WellFormed(coll) == [item |-> WellFormedItems(coll.item, 1)]
OfWellFormed(records) == SelectSeq(records, LAMBDA r : r.path.name # ItemNoUrl.name)

\* C16: a malformed item is skipped on its own: applyTestsAsExtensions does
\* not raise and does to the spec what it does for the collection without
\* the malformed items, and the degraded extraction finds the descriptions and
\* tests of all the other items.
C16_Original ==
    /\ (call.fn = "applyTestsAsExtensions" /\ ret.done) =>
          /\ ~ret.value.threw
          /\ ret.value = applyTestsAsExtensions(call.spec, WellFormed(call.collection))
    /\ (call.fn = "extractChangesFromCollection" /\ ret.done) =>
          LET clean == extractChangesFromCollection(EmptyDoc, EmptyDoc,
                                                    WellFormed(call.collection))
          IN  /\ OfWellFormed(ret.value.safeToSync) = clean.safeToSync
              /\ OfWellFormed(ret.value.tests) = clean.tests

\* the segments of a string: what lies before, between and after its slashes
Slashes(s) == {i \in 1..Len(s) : s[i] = "/"}
NumSegments(s) == Cardinality(Slashes(s)) + 1
SlashBefore(s, k) ==
    IF k = 1 THEN 0
    ELSE CHOOSE i \in Slashes(s) : Cardinality({j \in Slashes(s) : j <= i}) = k - 1
SlashAfter(s, k) ==
    IF k = NumSegments(s) THEN Len(s) + 1
    ELSE CHOOSE i \in Slashes(s) : Cardinality({j \in Slashes(s) : j <= i}) = k
Segment(s, k) == SubSeq(s, SlashBefore(s, k) + 1, SlashAfter(s, k) - 1)
\* a segment of the form {name}
IsTemplateSegment(seg) == Len(seg) >= 2 /\ Head(seg) = "{" /\ seg[Len(seg)] = "}"

\* C17: pathsMatch(template, concrete) is true exactly when both have the
\* same number of segments and every segment of the template is of the form
\* {name} or equal to the segment of the concrete path at its position.
C17_PathsMatch ==
    (call.fn = "pathsMatch" /\ ret.done) =>
        (ret.value <=>
            /\ NumSegments(call.specPath) = NumSegments(call.urlPath)
            /\ \A k \in 1..NumSegments(call.specPath) :
                  \/ IsTemplateSegment(Segment(call.specPath, k))
                  \/ Segment(call.specPath, k) = Segment(call.urlPath, k))
C17_Witness ==
    /\ call.fn = "pathsMatch" /\ ret.done
    /\ call.specPath = <<"/", "{", "i", "d", "}">>
    /\ call.urlPath = <<"/", "1">>
    /\ ret.value = TRUE

\* the positions, in the stored order of spec.paths, of the templates that
\* match the concrete path and carry the method
MatchingTemplates(spec, urlPath, method) ==
    {i \in 1..Len(KeyOrder) :
        /\ HasPath(spec, KeyOrder[i])
        /\ pathsMatch(KeyOrder[i], urlPath)
        /\ method \in Methods /\ spec[KeyOrder[i]][method].present}
FirstMatchingTemplate(spec, urlPath, method) ==
    LET found == MatchingTemplates(spec, urlPath, method)
    IN  IF found = {} THEN NoOperation
        ELSE [found |-> TRUE,
              p |-> KeyOrder[CHOOSE i \in found : \A j \in found : i <= j],
              m |-> method]

\* C18: findOperation returns the operation of the first template, in the
\* stored order of spec.paths, that matches the concrete path.
C18_Original ==
    (call.fn = "findOperation" /\ ret.done) =>
        ret.value = FirstMatchingTemplate(call.spec, call.urlPath, call.method)

\* the operations of spec that applyTestsAsExtensions(spec, coll) writes to
WrittenOperations(spec, coll) ==
    LET testsByOperation == extractTestsFromCollection(coll).tests
    IN  {<<findOperation(spec, testsByOperation[i].key[1], testsByOperation[i].key[2]).p,
           findOperation(spec, testsByOperation[i].key[1], testsByOperation[i].key[2]).m>> :
            i \in {j \in 1..Len(testsByOperation) :
                      findOperation(spec, testsByOperation[j].key[1],
                                    testsByOperation[j].key[2]).found}}
Applied == call.fn = "applyTestsAsExtensions" /\ ret.done /\ ~ret.value.threw

\* C19: applyTestsAsExtensions returns the number of distinct operations
\* whose x-postman-tests it wrote.
C19_Original ==
    Applied =>
        ret.value.count = Cardinality(WrittenOperations(call.spec, call.collection))

\* the operation a request item resolves to
OperationOf(spec, item) ==
    findOperation(spec, UrlPathOf(item.request.url), toLowerCase(item.request.method))
Resolves(spec, item) ==
    /\ HasTestEvents(item)
    /\ item.request.url.kind # "undefined"
    /\ OperationOf(spec, item).found
\* the x-postman-tests of that operation holds one entry for each test event
\* of the item, in event order, with the item's name and the event's lines
HoldsTestsOf(spec, item) ==
    LET op == OperationOf(call.spec, item)
        entries == spec[op.p][op.m].tests
        events == SelectSeq(item.event, LAMBDA e : e.listen = "test")
    IN  /\ Len(entries) = Len(events)
        /\ \A j \in 1..Len(events) :
              /\ entries[j].name = item.name
              /\ entries[j].script = events[j].script.exec

\* C20: after applyTestsAsExtensions, the operation a request
\* item with k >= 1 test events resolves to holds exactly k entries, in event
\* order, named after the item and with the lines of each test event.
C20_Original ==
    Applied =>
        LET reqs == RequestItems(call.collection.item, 1)
        IN  \A i \in 1..Len(reqs) :
              Resolves(call.spec, reqs[i]) => HoldsTestsOf(ret.value.spec, reqs[i])
\* C20, for an item that is the only one of the collection resolving to its
\* operation: that operation holds exactly its k entries; the events that do
\* not listen to 'test' add nothing.
C20_TestEntries ==
    Applied =>
        LET reqs == RequestItems(call.collection.item, 1)
        IN  \A i \in 1..Len(reqs) :
              (/\ Resolves(call.spec, reqs[i])
               /\ \A j \in 1..Len(reqs) :
                     (j # i /\ Resolves(call.spec, reqs[j])) =>
                         OperationOf(call.spec, reqs[j]) # OperationOf(call.spec, reqs[i]))
              => HoldsTestsOf(ret.value.spec, reqs[i])
C20_Witness ==
    /\ Applied
    /\ call.collection.item = <<ItemUser2, ItemTest>>
    /\ call.spec[PathTest]["get"].tests = OldTests
    /\ Len(ret.value.spec[PathUsersId]["get"].tests) = 2
    /\ ret.value.spec[PathUsersId]["get"].tests[2].script = <<"c1", "c2">>
    /\ Len(ret.value.spec[PathTest]["get"].tests) = 1

\* the request items that resolve to the operation, in depth-first order
ResolvingTo(spec, coll, p, m) ==
    SelectSeq(RequestItems(coll.item, 1),
              LAMBDA it : Resolves(spec, it) /\ OperationOf(spec, it).p = p
                                             /\ OperationOf(spec, it).m = m)

\* C21: after applyTestsAsExtensions an operation some request item resolves
\* to holds the tests of the last such item in depth-first order and nothing
\* else: neither what it held before nor the tests of an earlier item.
C21_Original ==
    Applied =>
        \A p \in DOMAIN call.spec : \A m \in Methods :
            LET items == ResolvingTo(call.spec, call.collection, p, m)
            IN  Len(items) > 0 =>
                  ret.value.spec[p][m].tests =
                      [j \in 1..Len(TestEvents(items[Len(items)].event)) |->
                          TestEntry(items[Len(items)].name,
                                    TestEvents(items[Len(items)].event)[j].script.exec,
                                    TestEvents(items[Len(items)].event)[j].script.type)]

\* the operations of spec whose template and method match a request item
\* with test scripts
MatchedBy(spec, coll) ==
    {pm \in (DOMAIN spec) \X Methods :
        /\ spec[pm[1]][pm[2]].present
        /\ \E i \in 1..Len(RequestItems(coll.item, 1)) :
              LET it == RequestItems(coll.item, 1)[i]
              IN  /\ HasTestEvents(it)
                  /\ it.request.url.kind # "undefined"
                  /\ toLowerCase(it.request.method) = pm[2]
                  /\ pathsMatch(pm[1], UrlPathOf(it.request.url))}

\* C22: applyTestsAsExtensions changes nothing in spec but the x-postman-tests
\* of operations matched by a request item with test scripts; a request that
\* matches no operation is not counted and leaves the spec as it was, and no
\* path or method key is added.
C22_TestsFrame ==
    /\ (call.fn = "applyTestsAsExtensions" /\ ret.done
           /\ WellFormed(call.collection) = call.collection) => ~ret.value.threw
    /\ Applied =>
        /\ DOMAIN ret.value.spec = DOMAIN call.spec
        /\ \A p \in DOMAIN call.spec :
              /\ DOMAIN ret.value.spec[p] = DOMAIN call.spec[p]
              /\ \A m \in Methods :
                    /\ ret.value.spec[p][m].present = call.spec[p][m].present
                    /\ ret.value.spec[p][m].description = call.spec[p][m].description
                    /\ <<p, m>> \notin MatchedBy(call.spec, call.collection) =>
                          ret.value.spec[p][m] = call.spec[p][m]
        /\ MatchedBy(call.spec, call.collection) = {} =>
              (ret.value.count = 0 /\ ret.value.spec = call.spec)
        /\ ret.value.count <=
              Len(SelectSeq(RequestItems(call.collection.item, 1),
                            LAMBDA it : Resolves(call.spec, it)))
C22_Witness ==
    /\ Applied
    /\ call.collection.item = <<ItemPost, ItemMe>>
    /\ call.spec[PathTest]["get"].tests = OldTests
    /\ ~call.spec[PathUsersMe]["get"].present
    /\ call.spec[PathUsersId]["get"].present
    /\ ret.value.count = 1
    /\ ret.value.spec[PathTest]["get"].tests = OldTests

\* C23: a call with options.dryRun (getStatus is one) ends with status
\* 'dry-run', reports the lengths of safeToSync, blocked and needsReview as
\* wouldApply, wouldSkip and wouldReview, and writes no file: neither the
\* spec, nor the output, nor a backup, nor the baseline.
C23_DryRun ==
    /\ []((pc = "done" /\ options.dryRun) =>
            /\ result.status = "dry-run"
            /\ result.wouldApply = Len(changes.safeToSync)
            /\ result.wouldSkip = Len(changes.blocked)
            /\ result.wouldReview = Len(changes.needsReview)
            /\ ~wroteSpec /\ ~wroteBaseline)
    /\ [][(pc' # "idle" /\ options'.dryRun) => files' = files]_vars
C23_Witness ==
    /\ pc = "done" /\ options.dryRun
    /\ result.status = "dry-run"
    /\ result.wouldApply > 0 /\ result.wouldSkip > 0 /\ result.wouldReview > 0
    /\ baselineFile.exists /\ baselineFile.doc # specFile.doc
    /\ backupFile = Absent /\ outFile = Absent

\* C24: after a call that returned 'synced', the saved baseline is the
\* document the next call reads from specPath, whatever options.outputPath
\* was: the next call starts with baseline = local.
C24_Original ==
    (pc = "done" /\ result.status = "synced") =>
        /\ loadBaseline(baselineFile).ok
        /\ loadBaseline(baselineFile).doc = readSpec(specFile)

\* C25: at the step that writes the merged spec in place with noBackup not
\* set, the backup already holds the spec file as it is before the write;
\* a call whose outputPath differs from specPath never changes the file at
\* specPath.
C25_BackupBeforeWrite ==
    [][/\ (wroteSpec' /\ ~wroteSpec /\ options.inPlace /\ ~options.noBackup) =>
            (backupFile.exists /\ backupFile = specFile /\ backupFile' = backupFile)
       /\ (specFile' # specFile) => (options.inPlace /\ pc = "backedUp")]_vars
C25_Witness ==
    /\ pc = "written" /\ options.inPlace /\ ~options.noBackup
    /\ backupFile.exists /\ backupFile.doc = localSpec
    /\ specFile.doc = mergeResult.spec /\ specFile.doc # localSpec

\* C26: a call without dryRun returns 'no-changes', having merged and
\* written nothing, exactly when safeToSync and tests are both empty;
\* otherwise it goes on to merge, write and return 'synced', however many
\* blocked or needsReview records there are. (The one call that does not
\* return is the one rejected by the TypeError of C16, for a collection with
\* a request that has test scripts and no url.)
NothingToApply == Len(changes.safeToSync) = 0 /\ Len(changes.tests) = 0
Waiting == call.fn \in WaitFns /\ frame # NoFrame
PollInFlight == frame.phase \in {"sleep", "retry", "request"}
BackoffDelays(sleeps) ==
    /\ Len(sleeps) > 0 => sleeps[1] = 2000
    /\ \A k \in 1..Len(sleeps) : sleeps[k] <= 10000
    /\ \A k \in 1..(Len(sleeps) - 1) :
          IF 3 * sleeps[k] <= 2 * 10000
          THEN 2 * sleeps[k + 1] = 3 * sleeps[k]
          ELSE sleeps[k + 1] = 10000
C27_WaitTerminates ==
    /\ [](Waiting =>
            /\ frame.polls <= call.maxAttempts
            /\ Len(frame.sleeps) = frame.polls + (IF PollInFlight THEN 1 ELSE 0)
            /\ BackoffDelays(frame.sleeps)
            /\ ret.done <=> ~PollInFlight
            /\ ~ret.done => frame.lastPoll # "found"
            /\ (ret.done /\ ~ret.threw) =>
                  /\ frame.polls > 0 /\ frame.lastPoll = "found"
                  /\ call.fn = "waitForCollectionGeneration" =>
                        ret.value \in {Listed(NameWanted, 2)}
            /\ (ret.done /\ ret.threw) =>
                  /\ ret.value = TimeoutError
                  /\ frame.polls = call.maxAttempts
                  /\ frame.lastPoll # "found"
            /\ (call.fn = "waitForCollectionSync" /\ frame.r.phase = "settled") =>
                  (frame.lastPoll = "found"
                      <=> frame.r.out \in {Resolved(CollectionBody(TRUE))}))
    /\ (call.fn \in WaitFns) ~> ret.done
C27_Witness ==
    /\ call = [fn |-> "waitForCollectionSync", maxAttempts |-> 6]
    /\ ret.done /\ ret.threw
    /\ frame.polls = 6
    /\ frame.sleeps = <<2000, 3000, 4500, 6750, 10000, 10000>>
    /\ frame.r.out.threw

\* C28: getCollectionWithRetry calls getCollection at most maxRetries times
\* and returns the first success; an error with an API status below 500 is
\* rethrown at once; an error with a status from 500 or without a status is
\* followed by a sleep of 2^i seconds and another attempt; when every
\* attempt has failed the last error is thrown, with no sleep after the
\* last attempt.
Below500(error) == \E s \in Statuses : s < 500 /\ error = ApiError(s)
Retrying == frame # NoFrame /\ frame.r # NoRetry
RetrySleeps == <<1000, 2000, 4000, 8000, 16000>>
C28_Retry ==
    Retrying =>
        LET r == frame.r
            m == maxRetriesOf(call)
            n == Len(r.errors)
        IN  /\ r.calls <= m
            /\ \A k \in 1..(n - 1) : ~Below500(r.errors[k])
            /\ r.sleeps = SubSeq(RetrySleeps, 1, Len(r.sleeps))
            /\ r.phase = "try" => (r.calls = n /\ Len(r.sleeps) = n /\ n < m)
            /\ r.phase = "sleep" => (r.calls = n /\ Len(r.sleeps) = n /\ n < m
                                        /\ ~Below500(r.errors[n]))
            /\ (r.phase = "settled" /\ ~r.out.threw) =>
                  /\ r.calls = n + 1
                  /\ Len(r.sleeps) = n
                  /\ (n > 0 => ~Below500(r.errors[n]))
            /\ (r.phase = "settled" /\ r.out.threw) =>
                  /\ r.calls = n
                  /\ IF n = 0 THEN m = 0 /\ r.out.value = UndefinedError
                     ELSE /\ r.out.value = r.errors[n]
                          /\ Len(r.sleeps) = n - 1
                          /\ Below500(r.errors[n]) \/ n = m
            /\ call.fn = "getCollectionWithRetry" =>
                  /\ ret.done <=> r.phase = "settled"
                  /\ ret.done => ret = r.out
C28_Witness ==
    /\ call = [fn |-> "getCollectionWithRetry", maxRetries |-> 3]
    /\ ret = Rejected(NetworkError)
    /\ frame.r.calls = 3
    /\ frame.r.errors = <<ApiError(503), ApiError(500), NetworkError>>
    /\ frame.r.sleeps = <<1000, 2000>>

\* C29: addTestsToItems replaces and is idempotent: a request item, at any
\* depth, for whose name testScripts has a script, or else a default
\* script, ends with exactly one test event, whose exec is that script; its
\* events with another listen value are kept in their order; every other
\* item and field is as before; applying the operation to its own result
\* changes nothing.
ExpectedScript(ts, name) == IF name \in DOMAIN ts THEN ts[name] ELSE ts["default"]
HasScript(ts, name) == name \in DOMAIN ts \/ "default" \in DOMAIN ts
IsExecOf(exec, script) ==
    IF script.isArray THEN exec = script.lines ELSE join(exec, "\n") = script.text
NonTest(events) == SelectSeq(events, LAMBDA e : e.listen # "test")
RECURSIVE TestsAdded(_, _, _)
TestsAdded(old, new, ts) ==
    /\ Len(new) = Len(old)
    /\ \A k \in 1..Len(old) :
          /\ [new[k] EXCEPT !.event = <<>>, !.hasEvent = FALSE, !.item = <<>>]
                = [old[k] EXCEPT !.event = <<>>, !.hasEvent = FALSE, !.item = <<>>]
          /\ IF old[k].hasRequest /\ HasScript(ts, old[k].name)
             THEN /\ new[k].hasEvent
                  /\ Len(TestEvents(new[k].event)) = 1
                  /\ IsExecOf(TestEvents(new[k].event)[1].script.exec,
                              ExpectedScript(ts, old[k].name))
                  /\ NonTest(new[k].event) = NonTest(old[k].event)
             ELSE new[k].event = old[k].event /\ new[k].hasEvent = old[k].hasEvent
          /\ IF old[k].hasItem THEN TestsAdded(old[k].item, new[k].item, ts)
             ELSE new[k].item = old[k].item
C29_AddTestsIdempotent ==
    (call.fn = "addTestsToItems" /\ ret.done) =>
        /\ TestsAdded(call.items, ret.value, call.testScripts)
        /\ addTestsToItems(ret.value, call.testScripts, 1) = ret.value
C29_Witness ==
    /\ call.fn = "addTestsToItems" /\ ret.done
    /\ call.items = <<FolderDeep, RequestWithItems>>
    /\ DOMAIN call.testScripts = {"A", "default"}
    /\ call.testScripts["A"] = StringScript(<<"a", "\n", "b">>)
    /\ call.testScripts["default"] = ArrayScript(<<<<"x">>, <<"y", "z">>>>)
    /\ ret.value[1].item[2].item[1].event
          = <<Event("prerequest", <<<<"p">>>>), Event("test", <<<<"a">>, <<"b">>>>)>>
    /\ ret.value[2].event
          = <<Event("prerequest", <<<<"q">>>>), Event("test", <<<<"x">>, <<"y", "z">>>>)>>
    /\ ret.value[2].item[1].event = <<Event("test", <<<<"a">>, <<"b">>>>)>>

\* C30: right after a repo export, with no change in Postman since,
\* detectChanges reports hasChanges = false and two empty lists; in general
\* it lists an entity of the workspace as 'new' iff its uid is not in the
\* manifest, as 'modified' iff it is tracked with another updatedAt, and
\* hasChanges is true iff one of the lists is not empty.
Reported(list, uid, change) ==
    \E k \in 1..Len(list) : list[k].uid = uid /\ list[k].change = change
ListsDrift(list, present, tracked) ==
    \A u \in DOMAIN present :
        /\ Reported(list, u, "new") <=> (present[u] > 0 /\ u \notin DOMAIN tracked)
        /\ Reported(list, u, "modified")
              <=> (present[u] > 0 /\ u \in DOMAIN tracked
                     /\ tracked[u].updatedAt # present[u])
DriftReport ==
    LET d == repoDetectChanges(manifest, workspace)
    IN  /\ ListsDrift(d.collections, workspace.collections, manifest.collections)
        /\ ListsDrift(d.environments, workspace.environments, manifest.environments)
        /\ d.hasChanges <=> (Len(d.collections) > 0 \/ Len(d.environments) > 0)
        /\ (call.fn = "detectChanges" /\ ret.done) => ret.value = d
Exported == call.fn = "runRepoSync" /\ ret.done /\ ret.value.updated
                /\ ret.value.failed = {}
C30_Original ==
    /\ DriftReport
    /\ Exported =>
          repoDetectChanges(manifest, workspace)
              = [collections |-> <<>>, environments |-> <<>>, hasChanges |-> FALSE]

====
